---- MODULE Spec2Model ----
(***************************************************************************)
(* FasterBASIC: the interactive program store (ProgramManager) with its    *)
(* renumbering formatter, and the compiler pipeline (semantic analyzer,    *)
(* control-flow graph, IR generator) driven by the shell.                  *)
(*                                                                         *)
(* Program text is modelled as TLA+ strings; a character is a string of    *)
(* length one, obtained with SubSeq.                                       *)
(***************************************************************************)
EXTENDS Integers, Sequences, FiniteSets, TLC

(***************************************************************************)
(* Characters (<cctype>)                                                   *)
(***************************************************************************)
At(s, i) == SubSeq(s, i, i)

DigitChars == {"0", "1", "2", "3", "4", "5", "6", "7", "8", "9"}

UpperChars ==
    {"A", "B", "C", "D", "E", "F", "G", "H", "I", "J", "K", "L", "M",
     "N", "O", "P", "Q", "R", "S", "T", "U", "V", "W", "X", "Y", "Z"}

LowerChars ==
    {"a", "b", "c", "d", "e", "f", "g", "h", "i", "j", "k", "l", "m",
     "n", "o", "p", "q", "r", "s", "t", "u", "v", "w", "x", "y", "z"}

UpperOf ==
    [c \in LowerChars |->
        CASE c = "a" -> "A" [] c = "b" -> "B" [] c = "c" -> "C" [] c = "d" -> "D"
          [] c = "e" -> "E" [] c = "f" -> "F" [] c = "g" -> "G" [] c = "h" -> "H"
          [] c = "i" -> "I" [] c = "j" -> "J" [] c = "k" -> "K" [] c = "l" -> "L"
          [] c = "m" -> "M" [] c = "n" -> "N" [] c = "o" -> "O" [] c = "p" -> "P"
          [] c = "q" -> "Q" [] c = "r" -> "R" [] c = "s" -> "S" [] c = "t" -> "T"
          [] c = "u" -> "U" [] c = "v" -> "V" [] c = "w" -> "W" [] c = "x" -> "X"
          [] c = "y" -> "Y" [] OTHER -> "Z"]

isdigit(c) == c \in DigitChars

isspace(c) == c \in {" ", "\t", "\n", "\r", "\f"}

isalnum(c) == c \in DigitChars \cup UpperChars \cup LowerChars

toupper(c) == IF c \in LowerChars THEN UpperOf[c] ELSE c

RECURSIVE ToUpperStr(_)
ToUpperStr(s) ==
    IF Len(s) = 0 THEN "" ELSE toupper(At(s, 1)) \o ToUpperStr(Tail(s))

Back(s) == At(s, Len(s))

(***************************************************************************)
(* Decimal conversion: std::to_string / operator<<(int) and std::stoi      *)
(***************************************************************************)
DigitStr == <<"0", "1", "2", "3", "4", "5", "6", "7", "8", "9">>

DigitVal(c) == CHOOSE d \in 0..9 : DigitStr[d + 1] = c

RECURSIVE NatToString(_)
NatToString(n) ==
    IF n < 10 THEN DigitStr[n + 1]
    ELSE NatToString(n \div 10) \o DigitStr[(n % 10) + 1]

to_string(n) == IF n < 0 THEN "-" \o NatToString(0 - n) ELSE NatToString(n)

IsNumberToken(tok) == \A k \in 1..Len(tok) : isdigit(At(tok, k))

\* std::stoi on a token of digits; StoiOverflow stands for std::out_of_range
StoiOverflow == -1

RECURSIVE StoiAcc(_, _, _)
StoiAcc(tok, k, acc) ==
    IF k > Len(tok) THEN acc
    ELSE LET d == DigitVal(At(tok, k))
         IN  IF acc > 214748364 \/ (acc = 214748364 /\ d > 7)
             THEN StoiOverflow
             ELSE StoiAcc(tok, k + 1, acc * 10 + d)

stoi(tok) == StoiAcc(tok, 1, 0)

(***************************************************************************)
(* basic_formatter_lib.cpp                                                 *)
(***************************************************************************)
Substr(s, i) == SubSeq(s, i, Len(s))

PushNonEmpty(tokens, current) ==
    IF current = "" THEN tokens ELSE Append(tokens, current)

\* tokenizeLine: the loop at character i (1-based) with the loop's locals
RECURSIVE TokenizeFrom(_, _, _, _, _, _)
TokenizeFrom(content, i, current, in_string, in_comment, tokens) ==
    IF i > Len(content) THEN PushNonEmpty(tokens, current)
    ELSE LET c == At(content, i) IN
      IF c = "\"" THEN
        TokenizeFrom(content, i + 1, current \o c, ~in_string, in_comment, tokens)
      ELSE IF in_string THEN
        TokenizeFrom(content, i + 1, current \o c, in_string, in_comment, tokens)
      ELSE IF ~in_comment /\ current = "" /\ i + 2 <= Len(content)
              /\ ToUpperStr(SubSeq(content, i, i + 2)) = "REM" THEN
        TokenizeFrom(content, i + 3, "REM", in_string, TRUE, tokens)
      ELSE IF in_comment THEN
        TokenizeFrom(content, i + 1, current \o c, in_string, in_comment, tokens)
      ELSE IF c = "'" THEN
        Append(PushNonEmpty(tokens, current), Substr(content, i))
      ELSE IF isspace(c) \/ c \in {":", ",", ";", "(", ")"} THEN
        TokenizeFrom(content, i + 1, "", in_string, in_comment,
                     IF c \in {":", "(", ")", ",", ";"}
                     THEN Append(PushNonEmpty(tokens, current), c)
                     ELSE PushNonEmpty(tokens, current))
      ELSE
        TokenizeFrom(content, i + 1, current \o c, in_string, in_comment, tokens)

tokenizeLine(content) == TokenizeFrom(content, 1, "", FALSE, FALSE, <<>>)

\* The text written for a token in reference position: its new number when
\* it is a number the mapping knows, the token itself otherwise.  thrown
\* when std::stoi does not fit an int.
RefText(tok, mapping) ==
    IF IsNumberToken(tok)
    THEN LET old_line == stoi(tok) IN
         IF old_line = StoiOverflow THEN [thrown |-> TRUE, s |-> ""]
         ELSE IF old_line \in DOMAIN mapping
              THEN [thrown |-> FALSE, s |-> " " \o to_string(mapping[old_line])]
              ELSE [thrown |-> FALSE, s |-> " " \o tok]
    ELSE [thrown |-> FALSE, s |-> " " \o tok]

\* while (i < size && (tokens[i] == ":" || tokens[i] == " ")) of the GOTO branch
RECURSIVE SkipColons(_, _, _)
SkipColons(tokens, i, result) ==
    IF i <= Len(tokens) /\ tokens[i] \in {":", " "}
    THEN SkipColons(tokens, i + 1, result \o tokens[i])
    ELSE [i |-> i, result |-> result]

\* the inner while of the ON branch, after GOTO/GOSUB was written
RECURSIVE OnTargets(_, _, _, _)
OnTargets(tokens, mapping, i, result) ==
    IF i > Len(tokens) THEN [thrown |-> FALSE, i |-> i, result |-> result]
    ELSE IF tokens[i] \in {",", " "}
         THEN OnTargets(tokens, mapping, i + 1, result \o tokens[i])
         ELSE LET r == RefText(tokens[i], mapping) IN
              IF r.thrown THEN [thrown |-> TRUE, i |-> i, result |-> result]
              ELSE IF IsNumberToken(tokens[i])
                   THEN OnTargets(tokens, mapping, i + 1, result \o r.s)
                   ELSE [thrown |-> FALSE, i |-> i, result |-> result \o r.s]

\* the outer while of the ON branch
RECURSIVE OnChain(_, _, _, _)
OnChain(tokens, mapping, i, result) ==
    IF i > Len(tokens) THEN [thrown |-> FALSE, i |-> i, result |-> result]
    ELSE IF ToUpperStr(tokens[i]) \in {"GOTO", "GOSUB"}
         THEN OnTargets(tokens, mapping, i + 1, result \o tokens[i])
         ELSE OnChain(tokens, mapping, i + 1, result \o tokens[i] \o " ")

NeedsSpace(tokens, i, result) ==
    /\ i > 1
    /\ tokens[i - 1] # ""
    /\ Back(tokens[i - 1]) # ":"
    /\ result # ""
    /\ Back(result) # " "
    /\ Back(result) # "("
    /\ tokens[i] \notin {":", ",", ")", "("}
    /\ tokens[i - 1] # "("

\* replaceLineRefs: the for loop at token i (1-based) with the text so far
RECURSIVE ReplaceFrom(_, _, _, _)
ReplaceFrom(tokens, mapping, i, result0) ==
    IF i > Len(tokens) THEN [thrown |-> FALSE, s |-> result0]
    ELSE
      LET result == IF NeedsSpace(tokens, i, result0) THEN result0 \o " " ELSE result0
          token  == tokens[i]
          upper  == ToUpperStr(token)
      IN
      IF upper \in {"GOTO", "GOSUB", "RESTORE", "THEN", "ELSE"} /\ i < Len(tokens) THEN
        LET sk == SkipColons(tokens, i + 1, result \o token) IN
        IF sk.i > Len(tokens) THEN ReplaceFrom(tokens, mapping, sk.i + 1, sk.result)
        ELSE IF upper \in {"THEN", "ELSE"}
                /\ ToUpperStr(tokens[sk.i]) \in {"GOTO", "GOSUB"}
        THEN ReplaceFrom(tokens, mapping, sk.i, sk.result)
        ELSE LET r == RefText(tokens[sk.i], mapping) IN
             IF r.thrown THEN [thrown |-> TRUE, s |-> ""]
             ELSE ReplaceFrom(tokens, mapping, sk.i + 1, sk.result \o r.s)
      ELSE IF upper = "ON" /\ i < Len(tokens) THEN
        LET oc == OnChain(tokens, mapping, i + 1, result \o token \o " ") IN
        IF oc.thrown THEN [thrown |-> TRUE, s |-> ""]
        ELSE ReplaceFrom(tokens, mapping, oc.i, oc.result)
      ELSE ReplaceFrom(tokens, mapping, i + 1, result \o token)

replaceLineRefs(content, mapping) ==
    ReplaceFrom(tokenizeLine(content), mapping, 1, "")

Keywords ==
    {"FOR", "TO", "STEP", "NEXT", "WHILE", "WEND", "ENDWHILE",
     "REPEAT", "UNTIL", "DO", "LOOP", "IF", "THEN", "ELSE",
     "ELSEIF", "ELSIF", "END", "GOTO", "GOSUB", "RETURN",
     "DIM", "LOCAL", "LET", "PRINT", "INPUT", "READ", "DATA",
     "RESTORE", "REM", "AND", "OR", "NOT", "XOR", "MOD",
     "SUB", "FUNCTION", "DEF", "FN", "CALL", "EXIT",
     "SELECT", "CASE", "WHEN", "OTHERWISE", "ENDCASE",
     "OPTION", "BASE", "EXPLICIT", "UNICODE", "ERROR",
     "OPEN", "CLOSE", "AS", "APPEND", "OUTPUT", "RANDOM",
     "CLS", "LOCATE", "COLOR", "BEEP", "SOUND", "WAIT", "WAIT_MS"}

FlushWord(word, plain) ==
    IF plain /\ ToUpperStr(word) \in Keywords THEN ToUpperStr(word) ELSE word

\* uppercaseKeywords: the loop at character i (1-based) with the loop's locals
RECURSIVE UppercaseFrom(_, _, _, _, _, _)
UppercaseFrom(content, i, result, word, in_string, in_comment) ==
    IF i > Len(content)
    THEN result \o FlushWord(word, ~in_string /\ ~in_comment)
    ELSE LET c == At(content, i) IN
      IF c = "\"" THEN
        UppercaseFrom(content, i + 1,
                      result \o FlushWord(word, ~in_string /\ ~in_comment) \o c,
                      "", ~in_string, in_comment)
      ELSE IF ~in_string /\ ~in_comment /\ word = "" /\ i + 2 <= Len(content)
              /\ ToUpperStr(SubSeq(content, i, i + 2)) = "REM"
              /\ (i + 2 >= Len(content) \/ ~isalnum(At(content, i + 3))) THEN
        UppercaseFrom(content, i + 3, result \o "REM", word, in_string, TRUE)
      ELSE IF in_comment \/ in_string THEN
        UppercaseFrom(content, i + 1, result \o c, word, in_string, in_comment)
      ELSE IF isalnum(c) \/ c = "_" THEN
        UppercaseFrom(content, i + 1, result, word \o c, in_string, in_comment)
      ELSE
        UppercaseFrom(content, i + 1, result \o FlushWord(word, TRUE) \o c,
                      "", in_string, in_comment)

uppercaseKeywords(content) == UppercaseFrom(content, 1, "", "", FALSE, FALSE)

\* the position of the first '\n' at or after i, 0 when there is none
NextNewline(text, i) ==
    LET N == {j \in i..Len(text) : At(text, j) = "\n"} IN
    IF N = {} THEN 0 ELSE CHOOSE j \in N : \A k \in N : j <= k

\* std::getline over the whole text from position i: the lines between '\n'
RECURSIVE GetLinesFrom(_, _)
GetLinesFrom(text, i) ==
    IF i > Len(text) THEN <<>>
    ELSE LET nl == NextNewline(text, i) IN
         IF nl = 0 THEN <<Substr(text, i)>>
         ELSE <<SubSeq(text, i, nl - 1)>> \o GetLinesFrom(text, nl + 1)

GetLines(text) == GetLinesFrom(text, 1)

RECURSIVE SkipSpaces(_, _)
SkipSpaces(line, pos) ==
    IF pos <= Len(line) /\ isspace(At(line, pos)) THEN SkipSpaces(line, pos + 1) ELSE pos

RECURSIVE SkipDigits(_, _)
SkipDigits(line, pos) ==
    IF pos <= Len(line) /\ isdigit(At(line, pos)) THEN SkipDigits(line, pos + 1) ELSE pos

\* extractLineNumber: the number (-1 when the line has none) and the
\* position after it and the blanks that follow it
extractLineNumber(line) ==
    LET p0 == SkipSpaces(line, 1) IN
    IF p0 > Len(line) \/ ~isdigit(At(line, p0)) THEN [num |-> -1, pos |-> p0]
    ELSE LET p1 == SkipDigits(line, p0)
         IN  [num |-> stoi(SubSeq(line, p0, p1 - 1)), pos |-> SkipSpaces(line, p1)]

IsBlank(line) == \A k \in 1..Len(line) : At(line, k) \in {" ", "\t", "\r", "\n"}

\* parseProgram (add_indentation = false): the BasicLine records, in order
RECURSIVE ParseLines(_, _, _)
ParseLines(ls, k, auto_line_num) ==
    IF k > Len(ls) THEN <<>>
    ELSE IF IsBlank(ls[k]) THEN ParseLines(ls, k + 1, auto_line_num)
    ELSE LET e == extractLineNumber(ls[k]) IN
         IF e.num < 0
         THEN <<[original_line_number |-> auto_line_num, content |-> ls[k]]>>
                 \o ParseLines(ls, k + 1, auto_line_num + 10)
         ELSE <<[original_line_number |-> e.num, content |-> Substr(ls[k], e.pos)]>>
                 \o ParseLines(ls, k + 1, auto_line_num)

parseProgram(source) == ParseLines(GetLines(source), 1, 1000)

\* the new number of the k-th parsed line
NewNumber(k, start_line, step) == start_line + (k - 1) * step

\* buildLineMapping: old number -> new number (a later line overrides)
buildLineMapping(lines, start_line, step) ==
    [old \in {lines[k].original_line_number : k \in 1..Len(lines)} |->
        LET last == CHOOSE k \in 1..Len(lines) :
                      /\ lines[k].original_line_number = old
                      /\ \A j \in (k + 1)..Len(lines) : lines[j].original_line_number # old
        IN  NewNumber(last, start_line, step)]

\* formatProgram (update_references = true, add_indentation = false)
RECURSIVE FormatLines(_, _, _, _, _)
FormatLines(lines, mapping, start_line, step, k) ==
    IF k > Len(lines) THEN [thrown |-> FALSE, s |-> ""]
    ELSE LET new_line_number == IF start_line > 0
                                THEN NewNumber(k, start_line, step)
                                ELSE lines[k].original_line_number
             r    == replaceLineRefs(lines[k].content, mapping)
             rest == FormatLines(lines, mapping, start_line, step, k + 1)
         IN  IF r.thrown \/ rest.thrown THEN [thrown |-> TRUE, s |-> ""]
             ELSE [thrown |-> FALSE,
                   s |-> to_string(new_line_number) \o " "
                           \o uppercaseKeywords(r.s) \o "\n" \o rest.s]

\* formatBasicCode with the options ProgramManager::renumber passes
formatBasicCode(source_code, start_line, step) ==
    LET lines == parseProgram(source_code) IN
    IF Len(lines) = 0 THEN [success |-> FALSE, formatted_code |-> ""]
    ELSE LET mapping == IF start_line > 0
                        THEN buildLineMapping(lines, start_line, step)
                        ELSE [old \in {lines[k].original_line_number : k \in 1..Len(lines)}
                                |-> old]
             f == FormatLines(lines, mapping, start_line, step, 1)
         IN  IF f.thrown THEN [success |-> FALSE, formatted_code |-> ""]
             ELSE [success |-> TRUE, formatted_code |-> f.s]

(***************************************************************************)
(* program_manager.cpp: the program store                                  *)
(***************************************************************************)
VARIABLES m_lines, m_modified, m_autoMode, m_autoStart, m_autoStep,
          m_autoCurrentLine, renumbers, lastOp

\* what has happened since auto mode was last switched on over an empty
\* store, for as long as it was only this: a number asked for, that number
\* stored, the next number asked for, ...; <<>> otherwise
VARIABLE autoLog

\* the lines as they were at the most recent moment m_modified was false
VARIABLE unmodifiedLines

storeVars == <<m_lines, m_modified, m_autoMode, m_autoStart, m_autoStep,
               m_autoCurrentLine, renumbers, lastOp, autoLog, unmodifiedLines>>

\* the compiler's state (shell_core.cpp, dump_ir.cpp), declared here so
\* that the store's operations can leave it alone
VARIABLES program, driver, parserErrors, pc, m_errors, m_symbolTable,
          m_forStack, m_whileStack, m_repeatStack, m_doStack, m_cfg, irCode

\* the options handed to the analyzer, its constants manager
\* (ConstantsManager.cpp), and what the manager's callers have seen: the
\* last call and, for every name added since the manager was constructed,
\* cleared or copied over, the index its first add returned and the value
\* last supplied
VARIABLES options, m_constantsManager, constOp, added

settledVars == <<program, driver, parserErrors, pc, m_errors, m_symbolTable,
                 m_forStack, m_whileStack, m_repeatStack, m_doStack, m_cfg, irCode,
                 options>>

compileVars == <<settledVars, m_constantsManager, constOp, added>>

\* the event manager: its handlers, the two input states it keeps and the
\* global switch
VARIABLES handlers_, currentState_, previousState_, eventsEnabled_

\* the last call of the event manager and what it returned; the states the
\* last two calls of updateEventState supplied, the older first
VARIABLES eventOp, supplied

eventVars == <<handlers_, currentState_, previousState_, eventsEnabled_, eventOp,
               supplied>>

vars == <<storeVars, compileVars, eventVars>>

EmptyLines == [n \in {} |-> ""]

isValidLineNumber(lineNumber) == lineNumber > 0 /\ lineNumber <= 65535

hasLine(lines, lineNumber) == lineNumber \in DOMAIN lines

MinOf(S) == CHOOSE x \in S : \A y \in S : x <= y

\* the keys of a std::map<int, ...> in iteration order
RECURSIVE Ascending(_)
Ascending(S) ==
    IF S = {} THEN <<>> ELSE <<MinOf(S)>> \o Ascending(S \ {MinOf(S)})

RECURSIVE GenerateFrom(_, _, _)
GenerateFrom(lines, keys, k) ==
    IF k > Len(keys) THEN ""
    ELSE to_string(keys[k]) \o " " \o lines[keys[k]] \o "\n"
            \o GenerateFrom(lines, keys, k + 1)

generateProgram(lines) == GenerateFrom(lines, Ascending(DOMAIN lines), 1)

RECURSIVE FirstNotOf(_, _, _)
FirstNotOf(s, set, i) ==
    IF i > Len(s) THEN 0
    ELSE IF At(s, i) \notin set THEN i ELSE FirstNotOf(s, set, i + 1)

RECURSIVE LastNotOf(_, _, _)
LastNotOf(s, set, i) ==
    IF i < 1 THEN 0
    ELSE IF At(s, i) \notin set THEN i ELSE LastNotOf(s, set, i - 1)

\* the text setLine stores for code; "" when it deletes the line instead
trimmedCode(code) ==
    LET start == FirstNotOf(code, {" ", "\t"}, 1) IN
    IF start = 0 THEN ""
    ELSE SubSeq(code, start, LastNotOf(code, {" ", "\t", "\r", "\n"}, Len(code)))

Erase(lines, lineNumber) == [n \in DOMAIN lines \ {lineNumber} |-> lines[n]]

Put(lines, lineNumber, code) ==
    [n \in DOMAIN lines \cup {lineNumber} |-> IF n = lineNumber THEN code ELSE lines[n]]

\* the fallback of renumber: positional numbers, text untouched;
\* lines are inserted in order, so a later line overwrites an earlier one
\* that got the same number
\* PositionalFold with the number advanced before the line is placed
RECURSIVE PositionalFoldAdvancedFirst(_, _, _, _, _, _)
PositionalFoldAdvancedFirst(lines, keys, k, currentLine, step, acc) ==
    IF k > Len(keys) THEN acc
    ELSE PositionalFoldAdvancedFirst(lines, keys, k + 1, currentLine + step, step,
                                     Put(acc, currentLine + step, lines[keys[k]]))

RECURSIVE PositionalFold(_, _, _, _, _, _)
PositionalFold(lines, keys, k, currentLine, step, acc) ==
    IF k > Len(keys) THEN acc
    ELSE PositionalFold(lines, keys, k + 1, currentLine + step, step,
                        Put(acc, currentLine, lines[keys[k]]))

\* the success branch of renumber: the formatted text read back into lines
RECURSIVE ReadBack(_, _, _)
ReadBack(ls, k, acc) ==
    IF k > Len(ls) THEN acc
    ELSE IF ls[k] = "" THEN ReadBack(ls, k + 1, acc)
    ELSE LET pos == SkipSpaces(ls[k], 1) IN
         IF pos <= Len(ls[k]) /\ isdigit(At(ls[k], pos))
         THEN LET endPos  == SkipDigits(ls[k], pos)
                  lineNum == stoi(SubSeq(ls[k], pos, endPos - 1))
                  code    == Substr(ls[k], SkipSpaces(ls[k], endPos))
              IN  ReadBack(ls, k + 1, IF code # "" THEN Put(acc, lineNum, code) ELSE acc)
         ELSE ReadBack(ls, k + 1, acc)

\* the lines renumber leaves in the store
renumberLines(lines, startLine, step) ==
    LET result == formatBasicCode(generateProgram(lines), startLine, step) IN
    IF ~result.success
    THEN PositionalFold(lines, Ascending(DOMAIN lines), 1, startLine, step, EmptyLines)
    ELSE ReadBack(GetLines(result.formatted_code), 1, EmptyLines)

(***************************************************************************)
(* The store's operations, as the shell calls them                         *)
(***************************************************************************)
MaxLines == 2

MaxRenumbers == 2

\* the longest autoLog kept
MaxAutoLog == 5

\* incrementAutoLine is followed up to this line number
MaxAutoLine == 130

LineInputs == {0, 10, 20, 65535, 65536}

CodeInputs ==
    {" goto 20 ", "IF A THEN 10 ELSE 20", "ON X GOTO 10,20",
     "ON X GOSUB L1,L2", "GOTO 99999999999", "  "}

RenumberInputs == {<<10, 10>>, <<100, 10>>, <<65530, 10>>}

AutoInputs == {<<100, 10>>}

\* ProgramManager::setLine(lineNumber, code), with the deleteLine it calls
setLine(lineNumber, code) ==
    /\ lineNumber \in DOMAIN m_lines \/ Cardinality(DOMAIN m_lines) < MaxLines
    /\ lastOp' = [op |-> "setLine",
                  stored |-> isValidLineNumber(lineNumber) /\ trimmedCode(code) # "",
                  removed |-> /\ isValidLineNumber(lineNumber)
                              /\ trimmedCode(code) = ""
                              /\ hasLine(m_lines, lineNumber)]
    /\ autoLog' = IF /\ autoLog # <<>>
                     /\ Len(autoLog) < MaxAutoLog
                     /\ autoLog[Len(autoLog)] = [op |-> "next", line |-> lineNumber]
                     /\ isValidLineNumber(lineNumber)
                     /\ trimmedCode(code) # ""
                  THEN Append(autoLog, [op |-> "set", line |-> lineNumber])
                  ELSE <<>>
    /\ IF ~isValidLineNumber(lineNumber)
       THEN UNCHANGED <<m_lines, m_modified, m_autoCurrentLine>>
       ELSE IF trimmedCode(code) = ""
       THEN /\ m_lines' = Erase(m_lines, lineNumber)
            /\ m_modified' = (hasLine(m_lines, lineNumber) \/ m_modified)
            /\ UNCHANGED m_autoCurrentLine
       ELSE /\ m_lines' = Put(m_lines, lineNumber, trimmedCode(code))
            /\ m_modified' = TRUE
            /\ m_autoCurrentLine' =
                  IF m_autoMode /\ lineNumber >= m_autoCurrentLine
                  THEN lineNumber + m_autoStep
                  ELSE m_autoCurrentLine
    /\ unmodifiedLines' = IF m_modified' THEN unmodifiedLines ELSE m_lines'
    /\ UNCHANGED <<m_autoMode, m_autoStart, m_autoStep, renumbers>>
    /\ UNCHANGED compileVars
    /\ UNCHANGED eventVars

\* deleteLine without its setModified(true)
deleteLineUnnoticed(lineNumber) ==
    /\ lastOp' = [op |-> "deleteLine", removed |-> hasLine(m_lines, lineNumber)]
    /\ autoLog' = <<>>
    /\ m_lines' = Erase(m_lines, lineNumber)
    /\ UNCHANGED m_modified
    /\ unmodifiedLines' = IF m_modified' THEN unmodifiedLines ELSE m_lines'
    /\ UNCHANGED <<m_autoMode, m_autoStart, m_autoStep, m_autoCurrentLine, renumbers>>
    /\ UNCHANGED compileVars
    /\ UNCHANGED eventVars

\* ProgramManager::deleteLine(lineNumber)
deleteLine(lineNumber) ==
    /\ lastOp' = [op |-> "deleteLine", removed |-> hasLine(m_lines, lineNumber)]
    /\ autoLog' = <<>>
    /\ m_lines' = Erase(m_lines, lineNumber)
    /\ m_modified' = (hasLine(m_lines, lineNumber) \/ m_modified)
    /\ unmodifiedLines' = IF m_modified' THEN unmodifiedLines ELSE m_lines'
    /\ UNCHANGED <<m_autoMode, m_autoStart, m_autoStep, m_autoCurrentLine, renumbers>>
    /\ UNCHANGED compileVars
    /\ UNCHANGED eventVars

\* ProgramManager::clear()
clear ==
    /\ lastOp' = [op |-> "clear"]
    /\ autoLog' = <<>>
    /\ m_lines' = EmptyLines
    /\ m_modified' = FALSE
    /\ unmodifiedLines' = EmptyLines
    /\ m_autoCurrentLine' = m_autoStart
    /\ UNCHANGED <<m_autoMode, m_autoStart, m_autoStep, renumbers>>
    /\ UNCHANGED compileVars
    /\ UNCHANGED eventVars

\* ProgramManager::renumber(startLine, step)
renumber(startLine, step) ==
    /\ renumbers < MaxRenumbers
    /\ renumbers' = renumbers + 1
    /\ autoLog' = <<>>
    /\ lastOp' = [op |-> "renumber", startLine |-> startLine, step |-> step,
                  before |-> m_lines,
                  prior |-> IF lastOp.op = "renumber"
                            THEN <<lastOp.startLine, lastOp.step>> ELSE <<>>]
    /\ IF m_lines = EmptyLines
       THEN UNCHANGED <<m_lines, m_modified, m_autoStart, m_autoStep, m_autoCurrentLine>>
       ELSE /\ m_lines' = renumberLines(m_lines, startLine, step)
            /\ m_modified' = TRUE
            /\ IF m_autoMode
               THEN /\ m_autoStart' = startLine
                    /\ m_autoStep' = step
                    /\ m_autoCurrentLine' =
                          startLine + Cardinality(DOMAIN m_lines') * step
               ELSE UNCHANGED <<m_autoStart, m_autoStep, m_autoCurrentLine>>
    /\ unmodifiedLines' = IF m_modified' THEN unmodifiedLines ELSE m_lines'
    /\ UNCHANGED m_autoMode
    /\ UNCHANGED compileVars
    /\ UNCHANGED eventVars

\* FirstFree without its loop: the current number as it is
CurrentAsIs(lines, current, step) == current

\* while (hasLine(current)) current += step
RECURSIVE FirstFree(_, _, _)
FirstFree(lines, current, step) ==
    IF hasLine(lines, current) THEN FirstFree(lines, current + step, step) ELSE current

\* ProgramManager::setAutoMode(enabled, start, step)
setAutoMode(enabled, start, step) ==
    /\ lastOp' = [op |-> "setAutoMode"]
    /\ autoLog' = IF enabled /\ m_lines = EmptyLines
                  THEN <<[op |-> "auto", line |-> start]>> ELSE <<>>
    /\ m_autoMode' = enabled
    /\ m_autoStart' = start
    /\ m_autoStep' = step
    /\ m_autoCurrentLine' =
          IF enabled THEN FirstFree(m_lines, start, step) ELSE m_autoCurrentLine
    /\ UNCHANGED <<m_lines, m_modified, renumbers, unmodifiedLines>>
    /\ UNCHANGED compileVars
    /\ UNCHANGED eventVars

\* ProgramManager::getNextAutoLine(): the number returned is lastOp.line
getNextAutoLine ==
    /\ lastOp' = [op |-> "getNextAutoLine", autoMode |-> m_autoMode,
                  line |-> IF ~m_autoMode THEN -1
                           ELSE FirstFree(m_lines, m_autoCurrentLine, m_autoStep)]
    /\ m_autoCurrentLine' =
          IF ~m_autoMode THEN m_autoCurrentLine
          ELSE FirstFree(m_lines, m_autoCurrentLine, m_autoStep)
    /\ autoLog' = IF m_autoMode /\ autoLog # <<>> /\ Len(autoLog) < MaxAutoLog
                     /\ autoLog[Len(autoLog)].op \in {"auto", "set", "direct"}
                  THEN Append(autoLog,
                              [op |-> "next",
                               line |-> FirstFree(m_lines, m_autoCurrentLine,
                                                  m_autoStep)])
                  ELSE <<>>
    /\ UNCHANGED <<m_lines, m_modified, m_autoMode, m_autoStart, m_autoStep, renumbers,
                   unmodifiedLines>>
    /\ UNCHANGED compileVars
    /\ UNCHANGED eventVars

\* ProgramManager::incrementAutoLine()
incrementAutoLine ==
    /\ m_autoCurrentLine + m_autoStep <= MaxAutoLine
    /\ lastOp' = [op |-> "incrementAutoLine"]
    /\ m_autoCurrentLine' =
          IF m_autoMode THEN m_autoCurrentLine + m_autoStep ELSE m_autoCurrentLine
    /\ autoLog' = <<>>
    /\ UNCHANGED <<m_lines, m_modified, m_autoMode, m_autoStart, m_autoStep, renumbers,
                   unmodifiedLines>>
    /\ UNCHANGED compileVars
    /\ UNCHANGED eventVars

\* ShellCore::showPrompt() in auto mode: the number offered is lastOp.line
showPrompt == m_autoMode /\ getNextAutoLine

\* ShellCore::handleDirectLine(cmd): m_program.setLine(cmd.lineNumber,
\* formattedCode), then m_program.incrementAutoLine() in auto mode.
\* formattedCode is the code as the command parser's formatBasicKeywords
\* returned it.
handleDirectLine(lineNumber, formattedCode) ==
    /\ lineNumber \in DOMAIN m_lines \/ Cardinality(DOMAIN m_lines) < MaxLines
    /\ m_autoCurrentLine <= MaxAutoLine
    /\ lastOp' = [op |-> "handleDirectLine",
                  stored |-> /\ isValidLineNumber(lineNumber)
                             /\ trimmedCode(formattedCode) # "",
                  removed |-> /\ isValidLineNumber(lineNumber)
                              /\ trimmedCode(formattedCode) = ""
                              /\ hasLine(m_lines, lineNumber)]
    /\ autoLog' = IF /\ autoLog # <<>>
                     /\ Len(autoLog) < MaxAutoLog
                     /\ autoLog[Len(autoLog)] = [op |-> "next", line |-> lineNumber]
                     /\ isValidLineNumber(lineNumber)
                     /\ trimmedCode(formattedCode) # ""
                  THEN Append(autoLog, [op |-> "direct", line |-> lineNumber])
                  ELSE <<>>
    /\ IF ~isValidLineNumber(lineNumber)
       THEN /\ UNCHANGED <<m_lines, m_modified>>
            /\ m_autoCurrentLine' =
                  IF m_autoMode THEN m_autoCurrentLine + m_autoStep
                  ELSE m_autoCurrentLine
       ELSE IF trimmedCode(formattedCode) = ""
       THEN /\ m_lines' = Erase(m_lines, lineNumber)
            /\ m_modified' = (hasLine(m_lines, lineNumber) \/ m_modified)
            /\ m_autoCurrentLine' =
                  IF m_autoMode THEN m_autoCurrentLine + m_autoStep
                  ELSE m_autoCurrentLine
       ELSE /\ m_lines' = Put(m_lines, lineNumber, trimmedCode(formattedCode))
            /\ m_modified' = TRUE
            /\ m_autoCurrentLine' =
                  IF m_autoMode
                  THEN (IF lineNumber >= m_autoCurrentLine
                        THEN lineNumber + m_autoStep
                        ELSE m_autoCurrentLine) + m_autoStep
                  ELSE m_autoCurrentLine
    /\ unmodifiedLines' = IF m_modified' THEN unmodifiedLines ELSE m_lines'
    /\ UNCHANGED <<m_autoMode, m_autoStart, m_autoStep, renumbers>>
    /\ UNCHANGED compileVars
    /\ UNCHANGED eventVars

\* ProgramManager::setModified(modified)
setModified(modified) ==
    /\ lastOp' = [op |-> "setModified"]
    /\ autoLog' = <<>>
    /\ m_modified' = modified
    /\ unmodifiedLines' = IF modified THEN unmodifiedLines ELSE m_lines
    /\ UNCHANGED <<m_lines, m_autoMode, m_autoStart, m_autoStep, m_autoCurrentLine,
                   renumbers>>
    /\ UNCHANGED compileVars
    /\ UNCHANGED eventVars

StoreNext ==
    \/ \E lineNumber \in LineInputs, code \in CodeInputs : setLine(lineNumber, code)
    \/ \E lineNumber \in LineInputs : deleteLine(lineNumber)
    \/ clear
    \/ \E a \in RenumberInputs : renumber(a[1], a[2])
    \/ \E enabled \in BOOLEAN, a \in AutoInputs : setAutoMode(enabled, a[1], a[2])

(***************************************************************************)
(* The AST the parser hands to the analyzer.  Every expression is a record *)
(* [type, name, args] and every statement a record of one shape, so that   *)
(* the fields a handler does not read hold a default.                      *)
(***************************************************************************)
NoExpression == [type |-> "NONE", name |-> "", args |-> <<>>]

NumberExpression(value) == [type |-> "EXPR_NUMBER", name |-> value, args |-> <<>>]

StringExpression(value) == [type |-> "EXPR_STRING", name |-> value, args |-> <<>>]

VariableExpression(name) == [type |-> "EXPR_VARIABLE", name |-> name, args |-> <<>>]

ArrayAccessExpression(name, indices) ==
    [type |-> "EXPR_ARRAY_ACCESS", name |-> name, args |-> indices]

BinaryExpression(op, left, right) ==
    [type |-> "EXPR_BINARY", name |-> op, args |-> <<left, right>>]

Statement(type) ==
    [type |-> type, isLabel |-> FALSE, lineNumber |-> 0, label |-> "",
     name |-> "", parameters |-> <<>>, expr |-> NoExpression, dimensions |-> <<>>]

GotoStatement(isLabel, lineNumber, label) ==
    [Statement("STMT_GOTO") EXCEPT !.isLabel = isLabel, !.lineNumber = lineNumber,
                                  !.label = label]

\* IF condition THEN gotoLine (hasGoto)
IfStatement(condition, gotoLine) ==
    [Statement("STMT_IF") EXCEPT !.expr = condition, !.lineNumber = gotoLine]

LabelStatement(labelName) == [Statement("STMT_LABEL") EXCEPT !.label = labelName]

DefStatement(functionName, parameters, body) ==
    [Statement("STMT_DEF") EXCEPT !.name = functionName, !.parameters = parameters,
                                 !.expr = body]

PrintStatement(expr) == [Statement("STMT_PRINT") EXCEPT !.expr = expr]

\* DATA values: the values as the strings the parser stored
DataStatement(values) ==
    [type |-> "STMT_DATA", isLabel |-> FALSE, lineNumber |-> 0, label |-> "",
     name |-> "", parameters |-> <<>>, expr |-> NoExpression, dimensions |-> <<>>,
     values |-> values]

\* DIM name(dimensions): one array, its type suffix left to the name
DimStatement(name, dimensions) ==
    [Statement("STMT_DIM") EXCEPT !.name = name, !.dimensions = dimensions]

\* CONSTANT name = value
ConstantStatement(name, value) ==
    [Statement("STMT_CONSTANT") EXCEPT !.name = name, !.expr = value]

\* FOR variable = 1 TO 1
ForStatement(variable) == [Statement("STMT_FOR") EXCEPT !.name = variable]

NextStatement(variable) == [Statement("STMT_NEXT") EXCEPT !.name = variable]

WhileStatement(condition) == [Statement("STMT_WHILE") EXCEPT !.expr = condition]

WendStatement == Statement("STMT_WEND")

RepeatStatement == Statement("STMT_REPEAT")

UntilStatement(condition) == [Statement("STMT_UNTIL") EXCEPT !.expr = condition]

\* plain DO and plain LOOP (ConditionType::NONE)
DoStatement == Statement("STMT_DO")

LoopStatement == Statement("STMT_LOOP")

ProgramLine(lineNumber, statements) ==
    [lineNumber |-> lineNumber, statements |-> statements]

(***************************************************************************)
(* The programs compiled: up to MaxProgramLines numbered lines, in         *)
(* ascending order, one statement each                                     *)
(***************************************************************************)
MaxProgramLines == 2

LineNumberInputs == {10, 20, 10000}

One == NumberExpression("1")

StatementInputs ==
    {PrintStatement(One),
     PrintStatement(ArrayAccessExpression("F", <<One>>)),
     PrintStatement(ArrayAccessExpression("G", <<VariableExpression("A")>>)),
     DefStatement("F", <<"X">>, BinaryExpression("PLUS", VariableExpression("X"), One)),
     DefStatement("F", <<"X">>, ArrayAccessExpression("F", <<VariableExpression("X")>>)),
     DefStatement("G", <<"X">>, ArrayAccessExpression("F", <<VariableExpression("X")>>)),
     DefStatement("F", <<"X">>, ArrayAccessExpression("G", <<VariableExpression("X")>>)),
     GotoStatement(FALSE, 20, ""),
     GotoStatement(FALSE, 15, ""),
     GotoStatement(TRUE, 0, "L1"),
     IfStatement(VariableExpression("A"), 20),
     LabelStatement("L1"),
     ForStatement("I"), NextStatement("I"),
     WhileStatement(VariableExpression("A")),
     WhileStatement(ArrayAccessExpression("F", <<One>>)),
     WendStatement,
     RepeatStatement, UntilStatement(VariableExpression("A")),
     DoStatement, LoopStatement,
     DimStatement("A", <<NumberExpression("0")>>),
     DimStatement("F", <<NumberExpression("10")>>),
     PrintStatement(ArrayAccessExpression("F", <<VariableExpression("A$")>>)),
     WhileStatement(BinaryExpression("EQUAL", VariableExpression("A$"),
                                     StringExpression("X"))),
     ConstantStatement("K", StringExpression("HI")),
     PrintStatement(BinaryExpression("PLUS", VariableExpression("K"),
                                     VariableExpression("K"))),
     PrintStatement(BinaryExpression("PLUS", VariableExpression("A$"),
                                     StringExpression("X"))),
     PrintStatement(BinaryExpression("PLUS",
                        BinaryExpression("PLUS", VariableExpression("K"),
                                         VariableExpression("PI")),
                        VariableExpression("A")))}

\* what one line holds: one statement, or DIM F(10) : DEF F(X) = X + 1
LineContentInputs ==
    {<<s>> : s \in StatementInputs}
    \cup {<<DimStatement("F", <<NumberExpression("10")>>),
             DefStatement("F", <<"X">>,
                          BinaryExpression("PLUS", VariableExpression("X"), One))>>}

\* the options the parser collected: OPTION EXPLICIT and OPTION UNICODE
CompilerOptionsInputs == [explicit : BOOLEAN, unicodeMode : BOOLEAN]

\* the programs over a set S of line numbers
ProgramsOver(S) ==
    {[k \in 1..Cardinality(S) |-> ProgramLine(Ascending(S)[k], f[Ascending(S)[k]])] :
        f \in [S -> LineContentInputs]}

ProgramInputs ==
    UNION {ProgramsOver(S) :
             S \in {T \in SUBSET LineNumberInputs : Cardinality(T) <= MaxProgramLines}}

\* every statement of the program in source order, with its line
RECURSIVE StatementsFrom(_, _)
StatementsFrom(prog, i) ==
    IF i > Len(prog) THEN <<>>
    ELSE [k \in 1..Len(prog[i].statements) |->
             [lineIndex |-> i, lineNumber |-> prog[i].lineNumber,
              stmt |-> prog[i].statements[k]]]
         \o StatementsFrom(prog, i + 1)

AllStatements(prog) == StatementsFrom(prog, 1)

(***************************************************************************)
(* ConstantsManager.cpp: the constants manager.  A manager value cm holds  *)
(* the vector of values and the map from a name to its index; a value is   *)
(* the alternative of the variant that is held and its text.               *)
(***************************************************************************)
ConstantValue(kind, text) == [kind |-> kind, text |-> text]

\* ConstantsManager()
NewConstantsManager == [m_constants |-> <<>>, m_nameToIndex |-> [n \in {} |-> 0]]

\* an add that never looks the name up: every call takes a new index
addConstantAlwaysNew(cm, name, value) ==
    [index |-> Len(cm.m_constants),
     cm |-> [m_constants |-> Append(cm.m_constants, value),
             m_nameToIndex |-> [n \in DOMAIN cm.m_nameToIndex \cup {name} |->
                                   IF n = name THEN Len(cm.m_constants)
                                   ELSE cm.m_nameToIndex[n]]]]

\* addConstant(name, value), the same for its three overloads: the index
\* returned and the manager after the call
addConstant(cm, name, value) ==
    IF name \in DOMAIN cm.m_nameToIndex
    THEN [index |-> cm.m_nameToIndex[name],
          cm |-> [cm EXCEPT !.m_constants[cm.m_nameToIndex[name] + 1] = value]]
    ELSE [index |-> Len(cm.m_constants),
          cm |-> [m_constants |-> Append(cm.m_constants, value),
                  m_nameToIndex |-> [n \in DOMAIN cm.m_nameToIndex \cup {name} |->
                                        IF n = name THEN Len(cm.m_constants)
                                        ELSE cm.m_nameToIndex[n]]]]

\* getConstant(index): throws std::out_of_range outside the vector
getConstant(cm, index) ==
    IF index < 0 \/ index >= Len(cm.m_constants)
    THEN ConstantValue("out_of_range", "")
    ELSE cm.m_constants[index + 1]

hasConstant(cm, name) == name \in DOMAIN cm.m_nameToIndex

getConstantIndex(cm, name) ==
    IF name \in DOMAIN cm.m_nameToIndex THEN cm.m_nameToIndex[name] ELSE -1

\* ConstantsManager::clear
clearConstants(cm) == NewConstantsManager

\* copyFrom(other): both containers cleared, then copied
copyFrom(cm, other) ==
    [m_constants |-> other.m_constants, m_nameToIndex |-> other.m_nameToIndex]

\* the first constants addPredefinedConstants registers, in its order
PredefinedConstants ==
    <<[name |-> "PI", value |-> ConstantValue("double", "3.14159265358979323846")],
      [name |-> "E", value |-> ConstantValue("double", "2.71828182845904523536")],
      [name |-> "SQRT2", value |-> ConstantValue("double", "1.41421356237309504880")],
      [name |-> "SQRT3", value |-> ConstantValue("double", "1.73205080756887729353")],
      [name |-> "GOLDEN_RATIO",
       value |-> ConstantValue("double", "1.61803398874989484820")],
      [name |-> "TRUE", value |-> ConstantValue("int64_t", "1")],
      [name |-> "FALSE", value |-> ConstantValue("int64_t", "0")]>>

RECURSIVE addPredefinedFrom(_, _)
addPredefinedFrom(cm, k) ==
    IF k > Len(PredefinedConstants) THEN cm
    ELSE addPredefinedFrom(addConstant(cm, PredefinedConstants[k].name,
                                       PredefinedConstants[k].value).cm, k + 1)

addPredefinedConstants(cm) == addPredefinedFrom(cm, 1)

getAllConstantNames(cm) == DOMAIN cm.m_nameToIndex

(***************************************************************************)
(* fasterbasic_semantic.cpp: the analyzer.  An analyzer value a holds the  *)
(* error list, the symbol table, the four balance stacks and the constants *)
(* manager.                                                                *)
(***************************************************************************)
\* SymbolTable(): empty tables, nextLabelId = 10000
NewSymbolTable ==
    [lineNumbers |-> {}, labels |-> [l \in {} |-> 0], nextLabelId |-> 10000,
     arrays |-> [n \in {} |-> [dimensions |-> <<>>, type |-> "UNKNOWN"]],
     functions |-> [n \in {} |-> NoExpression],
     variables |-> [n \in {} |-> "UNKNOWN"],
     constants |-> [n \in {} |-> [type |-> "INTEGER", index |-> -1]],
     dataSegment |-> [values |-> <<>>, restorePoints |-> [n \in {} |-> 0],
                      labelRestorePoints |-> [l \in {} |-> 0]],
     unicodeMode |-> FALSE]

\* ConstantSymbol(val): the type of the alternative held
ConstantSymbol(value, index) ==
    [type |-> IF value.kind = "int64_t" THEN "INTEGER"
              ELSE IF value.kind = "double" THEN "DOUBLE" ELSE "STRING",
     index |-> index]

\* SemanticAnalyzer(): the manager with the predefined constants, and the
\* symbol table with each of them registered
ConstructedManager == addPredefinedConstants(NewConstantsManager)

ConstructedSymbolTable ==
    [NewSymbolTable EXCEPT !.constants =
        [n \in getAllConstantNames(ConstructedManager) |->
            ConstantSymbol(getConstant(ConstructedManager,
                                       getConstantIndex(ConstructedManager, n)),
                           getConstantIndex(ConstructedManager, n))]]

\* SemanticAnalyzer(): m_requireExplicitDim(true)
m_requireExplicitDim == TRUE

\* initializeBuiltinFunctions: name -> argument count (-1 = variable)
m_builtinFunctions ==
    [n \in {"ABS", "SIN", "COS", "TAN", "ATN", "SQR", "INT", "SGN", "LOG", "EXP",
            "RND", "TIMER", "LEN", "ASC", "VAL"} |->
        IF n = "RND" THEN -1 ELSE IF n = "TIMER" THEN 0 ELSE 1]

isBuiltinFunction(name) == name \in DOMAIN m_builtinFunctions

\* error(type, message, location): one more entry of m_errors
error(a, type, line) ==
    [a EXCEPT !.errors = Append(@, [type |-> type, line |-> line])]

RECURSIVE collectLineNumbers(_, _, _)
collectLineNumbers(prog, i, a) ==
    IF i > Len(prog) THEN a
    ELSE LET lineNumber == prog[i].lineNumber IN
         IF lineNumber > 0
         THEN IF lineNumber \in a.symbols.lineNumbers
              THEN collectLineNumbers(prog, i + 1,
                                      error(a, "DUPLICATE_LINE_NUMBER", lineNumber))
              ELSE collectLineNumbers(prog, i + 1,
                       [a EXCEPT !.symbols.lineNumbers = @ \cup {lineNumber}])
         ELSE collectLineNumbers(prog, i + 1, a)

declareLabel(a, name, line) ==
    IF name \in DOMAIN a.symbols.labels
    THEN error(a, "DUPLICATE_LABEL", line)
    ELSE [a EXCEPT !.symbols.labels =
                        [l \in DOMAIN @ \cup {name} |->
                            IF l = name THEN a.symbols.nextLabelId ELSE @[l]],
                   !.symbols.nextLabelId = @ + 1]

RECURSIVE collectLabels(_, _, _)
collectLabels(stmts, k, a) ==
    IF k > Len(stmts) THEN a
    ELSE collectLabels(stmts, k + 1,
             IF stmts[k].stmt.type = "STMT_LABEL"
             THEN declareLabel(a, stmts[k].stmt.label, stmts[k].lineNumber)
             ELSE a)

processDefStatement(a, stmt, line) ==
    IF stmt.name \in DOMAIN a.symbols.functions
    THEN error(a, "FUNCTION_REDECLARED", line)
    ELSE [a EXCEPT !.symbols.functions =
                        [n \in DOMAIN @ \cup {stmt.name} |->
                            IF n = stmt.name
                            THEN [parameters |-> stmt.parameters, body |-> stmt.expr]
                            ELSE @[n]]]

EndsWith(s, suffix) ==
    Len(s) >= Len(suffix) /\ SubSeq(s, Len(s) - Len(suffix) + 1, Len(s)) = suffix

StringType(symbols) == IF symbols.unicodeMode THEN "UNICODE" ELSE "STRING"

inferTypeFromName(symbols, name) ==
    IF name = "" THEN "FLOAT"
    ELSE IF Len(name) > 7 /\ EndsWith(name, "_STRING") THEN StringType(symbols)
    ELSE IF Len(name) > 4 /\ EndsWith(name, "_INT") THEN "INT"
    ELSE IF Len(name) > 7 /\ EndsWith(name, "_DOUBLE") THEN "DOUBLE"
    ELSE IF Back(name) = "$" THEN StringType(symbols)
    ELSE IF Back(name) = "%" THEN "INT"
    ELSE IF Back(name) = "#" THEN "DOUBLE"
    ELSE "FLOAT"

\* static_cast<int>(numExpr.value) of a literal written as a whole number
numberValue(expr) == stoi(expr.name)

\* the dimension loop of processDimStatement: the analyzer and the sizes
\* collected so far
RECURSIVE dimensionSizes(_, _, _, _, _)
dimensionSizes(dims, k, a, line, sizes) ==
    IF k > Len(dims) THEN [a |-> a, dimensions |-> sizes]
    ELSE IF dims[k].type = "EXPR_NUMBER"
    THEN IF numberValue(dims[k]) <= 0
         THEN dimensionSizes(dims, k + 1, error(a, "INVALID_ARRAY_INDEX", line), line,
                             Append(sizes, 1 + 1))
         ELSE dimensionSizes(dims, k + 1, a, line,
                             Append(sizes, numberValue(dims[k]) + 1))
    ELSE dimensionSizes(dims, k + 1, a, line, Append(sizes, 11))

\* the ArraySymbol stored once the sizes are known
declareArray(d, name) ==
    [d.a EXCEPT !.symbols.arrays =
        [n \in DOMAIN @ \cup {name} |->
            IF n = name
            THEN [dimensions |-> d.dimensions,
                  type |-> inferTypeFromName(d.a.symbols, name)]
            ELSE @[n]]]

processDimStatement(a, stmt, line) ==
    IF stmt.name \in DOMAIN a.symbols.arrays
    THEN error(a, "ARRAY_REDECLARED", line)
    ELSE declareArray(dimensionSizes(stmt.dimensions, 1, a, line, <<>>), stmt.name)

RECURSIVE collectDimStatements(_, _, _)
collectDimStatements(stmts, k, a) ==
    IF k > Len(stmts) THEN a
    ELSE collectDimStatements(stmts, k + 1,
             IF stmts[k].stmt.type = "STMT_DIM"
             THEN processDimStatement(a, stmts[k].stmt, stmts[k].lineNumber)
             ELSE a)

\* evaluateConstantExpression of a literal
evaluateConstantExpression(expr) ==
    IF expr.type = "EXPR_STRING" THEN ConstantValue("string", expr.name)
    ELSE IF expr.type = "EXPR_NUMBER" THEN ConstantValue("int64_t", expr.name)
    ELSE ConstantValue("int64_t", "0")

\* declareConstant without constValue.index = index: the symbol keeps the
\* index its constructor gave it
declareConstantUnindexed(a, name, value, r) ==
    [a EXCEPT !.constantsManager = r.cm,
              !.symbols.constants =
                  [n \in DOMAIN @ \cup {name} |->
                      IF n = name THEN ConstantSymbol(value, -1) ELSE @[n]]]

\* the end of processConstantStatement: r is what addConstant returned
declareConstant(a, name, value, r) ==
    [a EXCEPT !.constantsManager = r.cm,
              !.symbols.constants =
                  [n \in DOMAIN @ \cup {name} |->
                      IF n = name THEN ConstantSymbol(value, r.index) ELSE @[n]]]

processConstantStatement(a, stmt, line) ==
    IF stmt.name \in DOMAIN a.symbols.constants
    THEN error(a, "DUPLICATE_LABEL", line)
    ELSE declareConstant(a, stmt.name, evaluateConstantExpression(stmt.expr),
                         addConstant(a.constantsManager, stmt.name,
                                     evaluateConstantExpression(stmt.expr)))

RECURSIVE collectConstantStatements(_, _, _)
collectConstantStatements(stmts, k, a) ==
    IF k > Len(stmts) THEN a
    ELSE collectConstantStatements(stmts, k + 1,
             IF stmts[k].stmt.type = "STMT_CONSTANT"
             THEN processConstantStatement(a, stmts[k].stmt, stmts[k].lineNumber)
             ELSE a)

RECURSIVE collectDefStatements(_, _, _)
collectDefStatements(stmts, k, a) ==
    IF k > Len(stmts) THEN a
    ELSE collectDefStatements(stmts, k + 1,
             IF stmts[k].stmt.type = "STMT_DEF"
             THEN processDefStatement(a, stmts[k].stmt, stmts[k].lineNumber)
             ELSE a)

processDataStatement(a, stmt, lineNumber, dataLabel) ==
    LET currentIndex == Len(a.symbols.dataSegment.values) IN
    [a EXCEPT !.symbols.dataSegment =
        [values |-> @.values \o stmt.values,
         restorePoints |->
             IF lineNumber > 0
             THEN Put(@.restorePoints, lineNumber, currentIndex)
             ELSE @.restorePoints,
         labelRestorePoints |->
             IF dataLabel # ""
             THEN Put(@.labelRestorePoints, dataLabel, currentIndex)
             ELSE @.labelRestorePoints]]

\* the first loop over a line: the label of the line is its last label
RECURSIVE LabelOfLine(_, _, _)
LabelOfLine(statements, k, dataLabel) ==
    IF k > Len(statements) THEN dataLabel
    ELSE LabelOfLine(statements, k + 1,
                     IF statements[k].type = "STMT_LABEL"
                     THEN statements[k].label ELSE dataLabel)

\* the second loop over a line
RECURSIVE processDataOfLine(_, _, _, _, _)
processDataOfLine(statements, k, lineNumber, effectiveLabel, a) ==
    IF k > Len(statements) THEN a
    ELSE processDataOfLine(statements, k + 1, lineNumber, effectiveLabel,
             IF statements[k].type = "STMT_DATA"
             THEN processDataStatement(a, statements[k], lineNumber, effectiveLabel)
             ELSE a)

RECURSIVE collectDataStatements(_, _, _, _)
collectDataStatements(prog, i, pendingLabel, a) ==
    IF i > Len(prog) THEN a
    ELSE LET statements == prog[i].statements
             dataLabel == LabelOfLine(statements, 1, "")
             hasData == \E k \in 1..Len(statements) : statements[k].type = "STMT_DATA"
             hasLabel == \E k \in 1..Len(statements) : statements[k].type = "STMT_LABEL"
         IN  IF hasData
             THEN collectDataStatements(prog, i + 1, "",
                      processDataOfLine(statements, 1, prog[i].lineNumber,
                                        IF dataLabel = "" THEN pendingLabel
                                        ELSE dataLabel, a))
             ELSE collectDataStatements(prog, i + 1,
                                        IF hasLabel THEN dataLabel ELSE "", a)

\* the programs hold no FUNCTION and no SUB statement, so collectFunctionAndSub
\* leaves the tables as they are
pass1_collectDeclarations(prog, a) ==
    collectConstantStatements(AllStatements(prog), 1,
        collectDataStatements(prog, 1, "",
            collectDefStatements(AllStatements(prog), 1,
                collectDimStatements(AllStatements(prog), 1,
                    collectLabels(AllStatements(prog), 1,
                        collectLineNumbers(prog, 1, a))))))

lookupLine(a, lineNumber) == lineNumber \in a.symbols.lineNumbers

lookupLabel(a, name) == name \in DOMAIN a.symbols.labels

\* a name met in an expression is declared with the type its name gives
useVariable(a, name) ==
    IF name \in DOMAIN a.symbols.variables THEN a
    ELSE [a EXCEPT !.symbols.variables =
             [n \in DOMAIN @ \cup {name} |->
                 IF n = name THEN inferTypeFromName(a.symbols, name) ELSE @[n]]]

useArray(a, name, dimensionCount, line) ==
    IF name \in DOMAIN a.symbols.functions THEN a
    ELSE IF name \notin DOMAIN a.symbols.arrays
         THEN IF m_requireExplicitDim THEN error(a, "ARRAY_NOT_DECLARED", line) ELSE a
         ELSE IF dimensionCount # Len(a.symbols.arrays[name].dimensions)
              THEN error(a, "WRONG_DIMENSION_COUNT", line)
              ELSE a

isNumericType(type) == type \in {"INT", "FLOAT", "DOUBLE"}

promoteTypes(left, right) ==
    IF left = "UNICODE" \/ right = "UNICODE" THEN "UNICODE"
    ELSE IF left = "STRING" \/ right = "STRING" THEN "STRING"
    ELSE IF left = "DOUBLE" \/ right = "DOUBLE" THEN "DOUBLE"
    ELSE IF left = "FLOAT" \/ right = "FLOAT" THEN "FLOAT"
    ELSE IF left = "INT" \/ right = "INT" THEN "INT"
    ELSE "FLOAT"

getBuiltinReturnType(symbols, name) ==
    IF ~isBuiltinFunction(name) THEN "UNKNOWN"
    ELSE IF Back(name) = "$" THEN StringType(symbols)
    ELSE IF name \in {"LEN", "ASC"} THEN "INT"
    ELSE "FLOAT"

\* the type inferExpressionType returns, read off the symbol table the call
\* leaves
RECURSIVE expressionType(_, _)
expressionType(expr, symbols) ==
    IF expr.type = "EXPR_NUMBER" THEN "FLOAT"
    ELSE IF expr.type = "EXPR_STRING" THEN StringType(symbols)
    ELSE IF expr.type = "EXPR_VARIABLE"
    THEN IF expr.name \in DOMAIN symbols.variables
         THEN symbols.variables[expr.name] ELSE "UNKNOWN"
    ELSE IF expr.type = "EXPR_ARRAY_ACCESS"
    THEN IF expr.name \in DOMAIN symbols.functions
         THEN inferTypeFromName(symbols, expr.name)
         ELSE IF expr.name \in DOMAIN symbols.arrays
         THEN symbols.arrays[expr.name].type
         ELSE IF isBuiltinFunction(expr.name)
         THEN getBuiltinReturnType(symbols, expr.name)
         ELSE "UNKNOWN"
    ELSE IF expr.type = "EXPR_BINARY"
    THEN IF /\ expr.name = "PLUS"
            /\ {expressionType(expr.args[1], symbols),
                expressionType(expr.args[2], symbols)} \cap {"STRING", "UNICODE"} # {}
         THEN IF "UNICODE" \in {expressionType(expr.args[1], symbols),
                                expressionType(expr.args[2], symbols)}
              THEN "UNICODE" ELSE "STRING"
         ELSE IF expr.name \in {"EQUAL", "NOT_EQUAL", "LESS_THAN", "LESS_EQUAL",
                                "GREATER_THAN", "GREATER_EQUAL", "AND", "OR"}
         THEN "FLOAT"
         ELSE promoteTypes(expressionType(expr.args[1], symbols),
                           expressionType(expr.args[2], symbols))
    ELSE "UNKNOWN"

\* validateExpression = inferExpressionType for its errors
RECURSIVE validateExpression(_, _, _)
RECURSIVE validateExpressions(_, _, _, _)
RECURSIVE validateIndices(_, _, _, _)
validateExpressions(exprs, k, a, line) ==
    IF k > Len(exprs) THEN a
    ELSE validateExpressions(exprs, k + 1, validateExpression(exprs[k], a, line), line)

\* the "Array index must be numeric" check of one index, a the analyzer
\* after the index was validated and its type inferred
indexChecked(index, a, line) ==
    IF ~isNumericType(expressionType(index, a.symbols))
    THEN error(a, "INVALID_ARRAY_INDEX", line) ELSE a

\* the index loop of an array access: validateExpression, then
\* inferExpressionType once more, then the check
validateIndices(exprs, k, a, line) ==
    IF k > Len(exprs) THEN a
    ELSE validateIndices(exprs, k + 1,
             indexChecked(exprs[k],
                          validateExpression(exprs[k],
                              validateExpression(exprs[k], a, line), line),
                          line),
             line)

inferArrayAccessType(expr, a, line) ==
    IF expr.name \in DOMAIN a.symbols.functions
    THEN validateExpressions(expr.args, 1, a, line)
    ELSE IF expr.name \in DOMAIN a.symbols.arrays
    THEN validateIndices(expr.args, 1,
                         useArray(a, expr.name, Len(expr.args), line), line)
    ELSE IF isBuiltinFunction(expr.name)
    THEN validateExpressions(expr.args, 1,
             IF m_builtinFunctions[expr.name] >= 0
                /\ Len(expr.args) # m_builtinFunctions[expr.name]
             THEN error(a, "TYPE_MISMATCH", line) ELSE a, line)
    ELSE validateIndices(expr.args, 1,
                         useArray(a, expr.name, Len(expr.args), line), line)

validateExpression(expr, a, line) ==
    IF expr.type = "EXPR_ARRAY_ACCESS" THEN inferArrayAccessType(expr, a, line)
    ELSE IF expr.type = "EXPR_VARIABLE" THEN useVariable(a, expr.name)
    ELSE IF expr.type = "EXPR_BINARY" THEN validateExpressions(expr.args, 1, a, line)
    ELSE a

Push(stack, x) == Append(stack, x)

Pop(stack) == SubSeq(stack, 1, Len(stack) - 1)

Top(stack) == stack[Len(stack)]

validateGotoStatement(stmt, a, line) ==
    IF stmt.isLabel
    THEN IF ~lookupLabel(a, stmt.label) THEN error(a, "UNDEFINED_LABEL", line) ELSE a
    ELSE IF ~lookupLine(a, stmt.lineNumber) THEN error(a, "UNDEFINED_LINE", line) ELSE a

validateIfStatement(stmt, a, line) ==
    LET a1 == validateExpression(stmt.expr, a, line) IN
    IF ~lookupLine(a1, stmt.lineNumber) THEN error(a1, "UNDEFINED_LINE", line) ELSE a1

validateForStatement(stmt, a, line) ==
    [useVariable(a, stmt.name)
        EXCEPT !.forStack = Push(@, [variable |-> stmt.name, line |-> line])]

validateNextStatement(stmt, a, line) ==
    IF a.forStack = <<>> THEN error(a, "NEXT_WITHOUT_FOR", line)
    ELSE LET a1 == IF stmt.name # "" /\ stmt.name # Top(a.forStack).variable
                   THEN error(a, "CONTROL_FLOW_MISMATCH", line) ELSE a
         IN  [a1 EXCEPT !.forStack = Pop(@)]

validateWhileStatement(stmt, a, line) ==
    [validateExpression(stmt.expr, a, line) EXCEPT !.whileStack = Push(@, line)]

validateWendStatement(stmt, a, line) ==
    IF a.whileStack = <<>> THEN error(a, "WEND_WITHOUT_WHILE", line)
    ELSE [a EXCEPT !.whileStack = Pop(@)]

validateRepeatStatement(stmt, a, line) == [a EXCEPT !.repeatStack = Push(@, line)]

validateUntilStatement(stmt, a, line) ==
    validateExpression(stmt.expr,
        IF a.repeatStack = <<>> THEN error(a, "UNTIL_WITHOUT_REPEAT", line)
        ELSE [a EXCEPT !.repeatStack = Pop(@)], line)

validateDoStatement(stmt, a, line) == [a EXCEPT !.doStack = Push(@, line)]

validateLoopStatement(stmt, a, line) ==
    IF a.doStack = <<>> THEN error(a, "LOOP_WITHOUT_DO", line)
    ELSE [a EXCEPT !.doStack = Pop(@)]

validatePrintStatement(stmt, a, line) == validateExpression(stmt.expr, a, line)

\* the switch of validateStatement; STMT_DEF and STMT_LABEL take its default
validateStatement(stmt, a, line) ==
    CASE stmt.type = "STMT_PRINT"  -> validatePrintStatement(stmt, a, line)
      [] stmt.type = "STMT_GOTO"   -> validateGotoStatement(stmt, a, line)
      [] stmt.type = "STMT_IF"     -> validateIfStatement(stmt, a, line)
      [] stmt.type = "STMT_FOR"    -> validateForStatement(stmt, a, line)
      [] stmt.type = "STMT_NEXT"   -> validateNextStatement(stmt, a, line)
      [] stmt.type = "STMT_WHILE"  -> validateWhileStatement(stmt, a, line)
      [] stmt.type = "STMT_WEND"   -> validateWendStatement(stmt, a, line)
      [] stmt.type = "STMT_REPEAT" -> validateRepeatStatement(stmt, a, line)
      [] stmt.type = "STMT_UNTIL"  -> validateUntilStatement(stmt, a, line)
      [] stmt.type = "STMT_DO"     -> validateDoStatement(stmt, a, line)
      [] stmt.type = "STMT_LOOP"   -> validateLoopStatement(stmt, a, line)
      [] OTHER -> a

RECURSIVE pass2_validate(_, _, _)
pass2_validate(stmts, k, a) ==
    IF k > Len(stmts) THEN a
    ELSE pass2_validate(stmts, k + 1,
                        validateStatement(stmts[k].stmt, a, stmts[k].lineNumber))

validateControlFlow(a) ==
    LET a1 == IF a.forStack # <<>>
              THEN error(a, "FOR_WITHOUT_NEXT", Top(a.forStack).line) ELSE a
        a2 == IF a1.whileStack # <<>>
              THEN error(a1, "WHILE_WITHOUT_WEND", Top(a1.whileStack)) ELSE a1
    IN  IF a2.repeatStack # <<>>
        THEN error(a2, "REPEAT_WITHOUT_UNTIL", Top(a2.repeatStack)) ELSE a2

\* analyze: the analyzer after the call, given what the call keeps: the DO
\* stack (the only stack it does not clear), the constants of the symbol
\* table and the constants manager.  Of the options it reads unicodeMode
\* (and arrayBase, errorTracking, cancellableLoops, which nothing here uses).
analyzeProgram(prog, doStack, savedConstants, cm, opts) ==
    validateControlFlow(
        pass2_validate(AllStatements(prog), 1,
            pass1_collectDeclarations(prog,
                [errors |-> <<>>,
                 symbols |-> [NewSymbolTable EXCEPT !.constants = savedConstants,
                                                    !.unicodeMode = opts.unicodeMode],
                 forStack |-> <<>>, whileStack |-> <<>>, repeatStack |-> <<>>,
                 doStack |-> doStack, constantsManager |-> cm])))

(***************************************************************************)
(* The control-flow graph.  Basic blocks in source order: a block begins   *)
(* at the first statement, at the statement after a GOTO or an IF, at the  *)
(* line a jump resolves to and at a label that is jumped to.               *)
(***************************************************************************)
\* the smallest line number >= n of lines, -1 when there is none
LineOrNext(lines, n) ==
    IF {l \in lines : l >= n} = {} THEN -1 ELSE MinOf({l \in lines : l >= n})

IsControlTransfer(stmt) == stmt.type \in {"STMT_GOTO", "STMT_IF"}

IsLineJump(stmt) ==
    \/ stmt.type = "STMT_GOTO" /\ ~stmt.isLabel
    \/ stmt.type = "STMT_IF"

IsLeader(stmts, k) ==
    LET lines == {stmts[j].lineNumber : j \in 1..Len(stmts)} IN
    \/ k = 1
    \/ IsControlTransfer(stmts[k - 1].stmt)
    \/ /\ stmts[k - 1].lineNumber # stmts[k].lineNumber
       /\ \E j \in 1..Len(stmts) :
             /\ IsLineJump(stmts[j].stmt)
             /\ LineOrNext(lines, stmts[j].stmt.lineNumber) = stmts[k].lineNumber
    \/ /\ stmts[k].stmt.type = "STMT_LABEL"
       /\ \E j \in 1..Len(stmts) :
             /\ stmts[j].stmt.type = "STMT_GOTO"
             /\ stmts[j].stmt.isLabel
             /\ stmts[j].stmt.label = stmts[k].stmt.label

\* the blocks, ids 0, 1, ...: each with its statements and whether a
\* FALLTHROUGH edge leaves it
buildCFG(prog) ==
    LET stmts   == AllStatements(prog)
        leaders == Ascending({k \in 1..Len(stmts) : IsLeader(stmts, k)})
        last(b) == IF b < Len(leaders) THEN leaders[b + 1] - 1 ELSE Len(stmts)
    IN  [b \in 1..Len(leaders) |->
            [id |-> b - 1,
             statements |-> SubSeq(stmts, leaders[b], last(b)),
             successors |-> IF b < Len(leaders)
                               /\ stmts[last(b)].stmt.type # "STMT_GOTO"
                            THEN <<b>> ELSE <<>>,
             fallthrough |-> b < Len(leaders)
                             /\ stmts[last(b)].stmt.type # "STMT_GOTO"]]

getFirstLineNumber(block) == block.statements[1].lineNumber

\* ControlFlowGraph::getBlockForLineOrNext: the id of the block with the
\* smallest first line >= lineNumber, -1 when there is none
getBlockForLineOrNext(cfg, lineNumber) ==
    LET C == {b \in 1..Len(cfg) : getFirstLineNumber(cfg[b]) >= lineNumber} IN
    IF C = {} THEN -1
    ELSE cfg[CHOOSE b \in C : \A c \in C :
                 getFirstLineNumber(cfg[b]) <= getFirstLineNumber(cfg[c])].id

\* the id of the block that holds a statement of line lineNumber, -1 if none
getBlockForLine(cfg, lineNumber) ==
    LET C == {b \in 1..Len(cfg) :
                \E k \in 1..Len(cfg[b].statements) :
                    cfg[b].statements[k].lineNumber = lineNumber} IN
    IF C = {} THEN -1 ELSE cfg[CHOOSE b \in C : \A c \in C : b <= c].id

\* ControlFlowGraph::isBackEdge: the destination's block id is at most the
\* source's
isBackEdge(cfg, fromLine, toLine) ==
    /\ getBlockForLineOrNext(cfg, toLine) >= 0
    /\ getBlockForLineOrNext(cfg, toLine) <= getBlockForLine(cfg, fromLine)

(***************************************************************************)
(* fasterbasic_ircode.cpp: the IR generator.  A generator value g holds    *)
(* the instructions emitted so far and the generator's members.            *)
(***************************************************************************)
\* IRGenerator() and the resets of generate()
NewGenerator(symbols) ==
    [instructions |-> <<>>, m_nextLabel |-> 1, m_blockLabels |-> [b \in {} |-> 0],
     m_userFunctions |-> [n \in {} |-> NoExpression],
     m_functions |-> DOMAIN symbols.functions,
     m_whileLoopLabels |-> <<>>,
     m_parameterMap |-> [n \in {} |-> ""], m_inFunctionInlining |-> FALSE,
     m_symbols |-> symbols, m_currentLineNumber |-> 0, m_currentBlockId |-> -1,
     thrown |-> FALSE, overflow |-> FALSE]

\* an instruction with its integer and string operands
emit(g, opcode, ints, strs) ==
    [g EXCEPT !.instructions =
        Append(@, [opcode |-> opcode, ints |-> ints, strs |-> strs,
                   isLoopJump |-> FALSE,
                   sourceLineNumber |-> g.m_currentLineNumber,
                   blockId |-> g.m_currentBlockId])]

emitLoopJump(g, opcode, label, isLoop) ==
    [g EXCEPT !.instructions =
        Append(@, [opcode |-> opcode, ints |-> <<label>>, strs |-> <<>>,
                   isLoopJump |-> isLoop,
                   sourceLineNumber |-> g.m_currentLineNumber,
                   blockId |-> g.m_currentBlockId])]

\* IRCode::emitLabel(labelId, blockId): the LABEL that defines labelId
emitLabel(g, labelId, blockId) ==
    [g EXCEPT !.instructions =
        Append(@, [opcode |-> "LABEL", ints |-> <<labelId>>, strs |-> <<>>,
                   isLoopJump |-> FALSE, sourceLineNumber |-> 0,
                   blockId |-> blockId])]

setSourceContext(g, lineNumber, blockId) ==
    [g EXCEPT !.m_currentLineNumber = lineNumber, !.m_currentBlockId = blockId]

\* allocateLabel, getLabelForBlock, getLabelForLineNumber: the label and the
\* generator after the call
allocateLabel(g) ==
    [label |-> g.m_nextLabel, g |-> [g EXCEPT !.m_nextLabel = @ + 1]]

getLabelForBlock(g, blockId) ==
    IF blockId \in DOMAIN g.m_blockLabels
    THEN [label |-> g.m_blockLabels[blockId], g |-> g]
    ELSE [label |-> g.m_nextLabel,
          g |-> [g EXCEPT !.m_nextLabel = @ + 1,
                          !.m_blockLabels =
                              [b \in DOMAIN @ \cup {blockId} |->
                                  IF b = blockId THEN g.m_nextLabel ELSE @[b]]]]

getLabelForLineNumber(g, cfg, lineNumber) ==
    IF getBlockForLineOrNext(cfg, lineNumber) >= 0
    THEN getLabelForBlock(g, getBlockForLineOrNext(cfg, lineNumber))
    ELSE allocateLabel(g)

\* the two escaping loops of serializeExpression: every backslash doubled,
\* then every quote given a backslash
RECURSIVE escaped(_, _)
escaped(value, i) ==
    IF i > Len(value) THEN ""
    ELSE (IF At(value, i) = "\\" THEN "\\\\"
          ELSE IF At(value, i) = "\"" THEN "\\\""
          ELSE At(value, i)) \o escaped(value, i + 1)

\* the operator text of a binary expression; "" for the switch's default
serializedOperator(op) ==
    CASE op = "PLUS" -> "+"
      [] op = "MINUS" -> "-"
      [] op = "MULTIPLY" -> "*"
      [] op = "DIVIDE" -> "/"
      [] op = "INT_DIVIDE" -> "//"
      [] op = "MOD" -> "%"
      [] op = "POWER" -> "^"
      [] op = "EQUAL" -> "=="
      [] op = "NOT_EQUAL" -> "~="
      [] op = "LESS_THAN" -> "<"
      [] op = "LESS_EQUAL" -> "<="
      [] op = "GREATER_THAN" -> ">"
      [] op = "GREATER_EQUAL" -> ">="
      [] op = "AND" -> "and"
      [] op = "OR" -> "or"
      [] OTHER -> ""

\* serializeExpression: "" when the expression cannot be deferred
RECURSIVE serializeExpression(_)
serializeExpression(expr) ==
    IF expr.type = "EXPR_NUMBER" THEN expr.name \o ".000000"
    ELSE IF expr.type = "EXPR_STRING" THEN "\"" \o escaped(expr.name, 1) \o "\""
    ELSE IF expr.type = "EXPR_VARIABLE" THEN "var_" \o expr.name
    ELSE IF expr.type = "EXPR_BINARY"
    THEN LET left  == serializeExpression(expr.args[1])
             right == serializeExpression(expr.args[2])
         IN  IF left = "" \/ right = "" \/ serializedOperator(expr.name) = "" THEN ""
             ELSE "(" \o left \o " " \o serializedOperator(expr.name) \o " "
                      \o right \o ")"
    ELSE ""

HasStringSuffix(name) ==
    name # "" /\ (Back(name) = "$" \/ (Len(name) > 7 /\ EndsWith(name, "_STRING")))

\* the built-in string functions isStringExpression lists
StringFunctionNames ==
    {"LEFT$", "RIGHT$", "MID$", "CHR$", "STR$", "LEFT_STRING", "RIGHT_STRING",
     "MID_STRING", "CHR_STRING", "STR_STRING", "STRING_STRING", "SPACE_STRING",
     "LCASE_STRING", "UCASE_STRING", "LTRIM_STRING", "RTRIM_STRING", "TRIM_STRING",
     "REVERSE_STRING"}

RECURSIVE isStringExpression(_, _)
isStringExpression(g, expr) ==
    IF expr.type = "EXPR_STRING" THEN TRUE
    ELSE IF expr.type = "EXPR_VARIABLE"
    THEN IF expr.name \in DOMAIN g.m_symbols.variables
         THEN g.m_symbols.variables[expr.name] \in {"STRING", "UNICODE"}
         ELSE IF expr.name \in DOMAIN g.m_symbols.arrays
         THEN g.m_symbols.arrays[expr.name].type \in {"STRING", "UNICODE"}
         ELSE HasStringSuffix(expr.name)
    ELSE IF expr.type = "EXPR_ARRAY_ACCESS"
    THEN expr.name \in StringFunctionNames \/ HasStringSuffix(expr.name)
    ELSE IF expr.type = "EXPR_BINARY"
    THEN /\ expr.name = "PLUS"
         /\ \/ isStringExpression(g, expr.args[1])
            \/ isStringExpression(g, expr.args[2])
    ELSE FALSE

\* the opcode a binary expression ends in
binaryOpcode(g, expr) ==
    CASE expr.name = "PLUS" ->
             IF isStringExpression(g, expr.args[1]) \/ isStringExpression(g, expr.args[2])
             THEN IF g.m_symbols.unicodeMode THEN "UNICODE_CONCAT" ELSE "STR_CONCAT"
             ELSE "ADD"
      [] expr.name = "MINUS" -> "SUB"
      [] expr.name = "MULTIPLY" -> "MUL"
      [] expr.name = "DIVIDE" -> "DIV"
      [] expr.name = "INT_DIVIDE" -> "IDIV"
      [] expr.name = "POWER" -> "POW"
      [] expr.name = "MOD" -> "MOD"
      [] expr.name = "EQUAL" -> "EQ"
      [] expr.name = "NOT_EQUAL" -> "NE"
      [] expr.name = "LESS_THAN" -> "LT"
      [] expr.name = "LESS_EQUAL" -> "LE"
      [] expr.name = "GREATER_THAN" -> "GT"
      [] expr.name = "GREATER_EQUAL" -> "GE"
      [] expr.name = "AND" -> "AND"
      [] expr.name = "OR" -> "OR"
      [] expr.name = "XOR" -> "XOR"
      [] expr.name = "EQV" -> "EQV"
      [] expr.name = "IMP" -> "IMP"
      [] OTHER -> "NOP"

\* generateExpression and generateInlinedFunction.  active is the set of
\* DEF FN functions whose body is being expanded around the expression: the
\* expansion of a body that reaches a call of its own function starts the
\* same expansion again and never returns (overflow).
RECURSIVE generateExpression(_, _, _)
RECURSIVE generateExpressions(_, _, _, _)
RECURSIVE storeArguments(_, _, _, _, _, _)
generateExpressions(exprs, k, g, active) ==
    IF k > Len(exprs) THEN g
    ELSE generateExpressions(exprs, k + 1, generateExpression(exprs[k], g, active),
                             active)

\* std::string tempVar = "__fn_" + funcName + "_" + func.parameters[i]
tempVarName(funcName, parameter) == "__fn_" \o funcName \o "_" \o parameter

\* the argument loop of generateInlinedFunction
storeArguments(funcName, parameters, arguments, i, g, active) ==
    IF i > Len(arguments) \/ i > Len(parameters) THEN g
    ELSE storeArguments(funcName, parameters, arguments, i + 1,
             [emit(generateExpression(arguments[i], g, active),
                   "STORE_VAR", <<>>, <<tempVarName(funcName, parameters[i])>>)
                 EXCEPT !.m_parameterMap =
                     [p \in DOMAIN @ \cup {parameters[i]} |->
                         IF p = parameters[i]
                         THEN tempVarName(funcName, parameters[i]) ELSE @[p]]],
             active)

\* inlineBody without the restore of m_parameterMap and m_inFunctionInlining
RECURSIVE inlineBodyUnrestored(_, _, _, _)
inlineBodyUnrestored(funcName, g1, g, active) ==
    IF g1.overflow \/ funcName \in active
    THEN [g1 EXCEPT !.overflow = TRUE]
    ELSE generateExpression(g.m_userFunctions[funcName].body,
                            [g1 EXCEPT !.m_inFunctionInlining = TRUE],
                            active \cup {funcName})

\* the body of generateInlinedFunction after its argument loop: g1 is the
\* generator the loop left, g the one the call started with
RECURSIVE inlineBody(_, _, _, _)
inlineBody(funcName, g1, g, active) ==
    IF g1.overflow \/ funcName \in active
    THEN [g1 EXCEPT !.overflow = TRUE]
    ELSE [generateExpression(g.m_userFunctions[funcName].body,
                             [g1 EXCEPT !.m_inFunctionInlining = TRUE],
                             active \cup {funcName})
             EXCEPT !.m_parameterMap = g.m_parameterMap,
                    !.m_inFunctionInlining = g.m_inFunctionInlining]

generateInlinedFunction(funcName, arguments, g, active) ==
    IF funcName \notin DOMAIN g.m_userFunctions
    THEN emit(g, "PUSH_INT", <<0>>, <<>>)
    ELSE inlineBody(funcName,
                    storeArguments(funcName, g.m_userFunctions[funcName].parameters,
                                   arguments, 1, g, active),
                    g, active)

generateExpression(expr, g, active) ==
    IF g.overflow THEN g
    ELSE IF expr.type = "NONE" THEN emit(g, "PUSH_INT", <<0>>, <<>>)
    ELSE IF expr.type = "EXPR_NUMBER" THEN emit(g, "PUSH_INT", <<>>, <<expr.name>>)
    ELSE IF expr.type = "EXPR_STRING" THEN emit(g, "PUSH_STRING", <<>>, <<expr.name>>)
    ELSE IF expr.type = "EXPR_VARIABLE"
    THEN IF expr.name \in DOMAIN g.m_symbols.constants
         THEN emit(g, "LOAD_CONST", <<g.m_symbols.constants[expr.name].index>>, <<>>)
         ELSE IF g.m_inFunctionInlining /\ expr.name \in DOMAIN g.m_parameterMap
         THEN emit(g, "LOAD_VAR", <<>>, <<g.m_parameterMap[expr.name]>>)
         ELSE emit(g, "LOAD_VAR", <<>>, <<expr.name>>)
    ELSE IF expr.type = "EXPR_ARRAY_ACCESS"
    THEN IF expr.name \in DOMAIN g.m_symbols.arrays
         THEN emit(generateExpressions(expr.args, 1, g, active),
                   "LOAD_ARRAY", <<Len(expr.args)>>, <<expr.name>>)
         ELSE IF expr.name \in DOMAIN g.m_userFunctions
         THEN generateInlinedFunction(expr.name, expr.args, g, active)
         ELSE IF expr.name \in g.m_functions
         THEN emit(generateExpressions(expr.args, 1, g, active),
                   "CALL_FUNCTION", <<Len(expr.args)>>, <<expr.name>>)
         ELSE emit(generateExpressions(expr.args, 1, g, active),
                   "CALL_BUILTIN", <<Len(expr.args)>>, <<expr.name>>)
    ELSE IF expr.type = "EXPR_BINARY"
    THEN emit(generateExpressions(expr.args, 1, g, active), binaryOpcode(g, expr),
              <<>>, <<>>)
    ELSE g

generatePrint(stmt, g) ==
    emit(emit(generateExpression(stmt.expr, g, {}), "PRINT", <<0>>, <<>>),
         "PRINT_NEWLINE", <<>>, <<>>)

\* emit(opcode, label) with the label a lookup returned
emitJump(t, opcode) == emit(t.g, opcode, <<t.label>>, <<>>)

generateIf(stmt, g, cfg) ==
    emitJump(getLabelForLineNumber(generateExpression(stmt.expr, g, {}), cfg,
                                   stmt.lineNumber),
             "JUMP_IF_TRUE")

generateFor(stmt, g) ==
    emit(emit(generateExpression(One, generateExpression(One, g, {}), {}),
              "PUSH_INT", <<1>>, <<>>),
         "FOR_INIT", <<>>, <<stmt.name>>)

generateNext(stmt, g) == emit(g, "FOR_NEXT", <<>>, <<stmt.name>>)

generateWhile(stmt, g) ==
    LET serializedExpr == serializeExpression(stmt.expr) IN
    IF serializedExpr # ""
    THEN [emit(g, "WHILE_START", <<>>, <<serializedExpr>>)
             EXCEPT !.m_whileLoopLabels = Append(@, -1)]
    ELSE emit(generateExpression(stmt.expr,
                 [emit(allocateLabel(g).g, "LABEL", <<allocateLabel(g).label>>, <<>>)
                     EXCEPT !.m_whileLoopLabels = Append(@, allocateLabel(g).label)],
                 {}),
              "WHILE_START", <<allocateLabel(g).label>>, <<>>)

\* generateWend without its pop_back: the label stays on the stack
generateWendLeavesLabel(stmt, g) ==
    IF g.m_whileLoopLabels = <<>> THEN [g EXCEPT !.thrown = TRUE]
    ELSE IF Top(g.m_whileLoopLabels) >= 0
    THEN emit(g, "WHILE_END", <<Top(g.m_whileLoopLabels)>>, <<>>)
    ELSE emit(g, "WHILE_END", <<>>, <<>>)

\* throws std::runtime_error when no WHILE is open
generateWend(stmt, g) ==
    IF g.m_whileLoopLabels = <<>> THEN [g EXCEPT !.thrown = TRUE]
    ELSE LET whileLabel == Top(g.m_whileLoopLabels)
             g1 == [g EXCEPT !.m_whileLoopLabels = Pop(@)]
         IN  IF whileLabel >= 0 THEN emit(g1, "WHILE_END", <<whileLabel>>, <<>>)
             ELSE emit(g1, "WHILE_END", <<>>, <<>>)

generateRepeat(stmt, g) == emit(g, "REPEAT_START", <<>>, <<>>)

generateUntil(stmt, g) ==
    emit(generateExpression(stmt.expr, g, {}), "REPEAT_END", <<>>, <<>>)

generateDo(stmt, g) == emit(g, "DO_START", <<>>, <<>>)

generateLoop(stmt, g) == emit(g, "DO_LOOP_END", <<>>, <<>>)

generateGoto(stmt, g, cfg, lineNumber) ==
    IF stmt.isLabel
    THEN IF stmt.label \in DOMAIN g.m_symbols.labels
         THEN emitLoopJump(g, "JUMP", g.m_symbols.labels[stmt.label], FALSE)
         ELSE emitLoopJump(allocateLabel(g).g, "JUMP", allocateLabel(g).label, FALSE)
    ELSE emitLoopJump(getLabelForLineNumber(g, cfg, stmt.lineNumber).g, "JUMP",
                      getLabelForLineNumber(g, cfg, stmt.lineNumber).label,
                      lineNumber > 0 /\ stmt.lineNumber > 0
                         /\ isBackEdge(cfg, lineNumber, stmt.lineNumber))

\* the dimension sizes pushed, then DIM_ARRAY name, count
generateDim(stmt, g) ==
    emit(generateExpressions(stmt.dimensions, 1, g, {}), "DIM_ARRAY",
         <<Len(stmt.dimensions)>>, <<stmt.name>>)

\* no instruction: the analyzer has registered the constant
generateConstant(stmt, g) == g

generateLabel(stmt, g) ==
    IF stmt.label \in DOMAIN g.m_symbols.labels
    THEN emit(g, "LABEL", <<g.m_symbols.labels[stmt.label]>>, <<>>)
    ELSE g

\* no instruction: the function is kept for the call sites that follow
generateDef(stmt, g) ==
    [g EXCEPT !.m_userFunctions =
        [n \in DOMAIN @ \cup {stmt.name} |->
            IF n = stmt.name
            THEN [name |-> stmt.name, parameters |-> stmt.parameters,
                  body |-> stmt.expr]
            ELSE @[n]]]

generateStatement(stmt, g, cfg, lineNumber) ==
    CASE stmt.type = "STMT_PRINT"  -> generatePrint(stmt, g)
      [] stmt.type = "STMT_IF"     -> generateIf(stmt, g, cfg)
      [] stmt.type = "STMT_FOR"    -> generateFor(stmt, g)
      [] stmt.type = "STMT_NEXT"   -> generateNext(stmt, g)
      [] stmt.type = "STMT_WHILE"  -> generateWhile(stmt, g)
      [] stmt.type = "STMT_WEND"   -> generateWend(stmt, g)
      [] stmt.type = "STMT_REPEAT" -> generateRepeat(stmt, g)
      [] stmt.type = "STMT_UNTIL"  -> generateUntil(stmt, g)
      [] stmt.type = "STMT_DO"     -> generateDo(stmt, g)
      [] stmt.type = "STMT_LOOP"   -> generateLoop(stmt, g)
      [] stmt.type = "STMT_GOTO"   -> generateGoto(stmt, g, cfg, lineNumber)
      [] stmt.type = "STMT_DEF"    -> generateDef(stmt, g)
      [] stmt.type = "STMT_LABEL"  -> generateLabel(stmt, g)
      [] stmt.type = "STMT_DIM"    -> generateDim(stmt, g)
      [] stmt.type = "STMT_CONSTANT" -> generateConstant(stmt, g)
      [] OTHER -> g

\* the statement loop of generateBlock; an exception or an expansion that
\* never returns ends it
RECURSIVE generateStatements(_, _, _, _)
generateStatements(stmts, k, g, cfg) ==
    IF k > Len(stmts) \/ g.thrown \/ g.overflow THEN g
    ELSE generateStatements(stmts, k + 1,
             generateStatement(stmts[k].stmt,
                               setSourceContext(g, stmts[k].lineNumber,
                                                g.m_currentBlockId),
                               cfg, stmts[k].lineNumber),
             cfg)

\* the end of generateBlock: the jump to the successor when the block
\* neither ends in a control-flow statement nor falls through
blockExit(block, g) ==
    IF g.thrown \/ g.overflow THEN g
    ELSE IF block.statements[Len(block.statements)].stmt.type
               \notin {"STMT_GOTO", "STMT_IF"}
            /\ block.successors # <<>> /\ ~block.fallthrough
    THEN emitJump(getLabelForBlock(g, block.successors[1]), "JUMP")
    ELSE g

\* the head of generateBlock: the block's label
blockEntry(block, l) == emitLabel(l.g, l.label, block.id)

generateBlock(block, g, cfg) ==
    blockExit(block,
        generateStatements(block.statements, 1,
            blockEntry(block,
                getLabelForBlock(
                    setSourceContext(g, getFirstLineNumber(block), block.id),
                    block.id)),
            cfg))

RECURSIVE allocateBlockLabels(_, _, _)
allocateBlockLabels(cfg, b, g) ==
    IF b > Len(cfg) THEN g
    ELSE allocateBlockLabels(cfg, b + 1, getLabelForBlock(g, cfg[b].id).g)

RECURSIVE generateBlocks(_, _, _)
generateBlocks(cfg, b, g) ==
    IF b > Len(cfg) \/ g.thrown \/ g.overflow THEN g
    ELSE generateBlocks(cfg, b + 1, generateBlock(cfg[b], g, cfg))

\* IRGenerator::generate(cfg, symbols): the generator when it returns, or
\* with thrown / overflow set when it does not
\* the final HALT of generate
finalHalt(g) ==
    IF g.thrown \/ g.overflow THEN g
    ELSE IF g.instructions = <<>>
            \/ g.instructions[Len(g.instructions)].opcode # "HALT"
    THEN emit(g, "HALT", <<>>, <<>>)
    ELSE g

generate(cfg, symbols) ==
    finalHalt(generateBlocks(cfg, 1,
                  allocateBlockLabels(cfg, 1, NewGenerator(symbols))))

(***************************************************************************)
(* shell_core.cpp, dump_ir.cpp: one compilation of a program, stage by     *)
(* stage.  pc is the stage reached; "failed" is a compilation given up,    *)
(* "overflow" an IR generator that never returned.                         *)
(***************************************************************************)
DriverInputs == {"shell", "dump_ir"}

NoneAdded == [n \in {} |-> [first |-> 0, value |-> ConstantValue("int64_t", "0")]]

\* a program handed to a freshly constructed analyzer and generator, the
\* program store as constructed
(***************************************************************************)
(* fasterbasic_events.cpp: the event manager.  Of EventState the buttons   *)
(* are kept; the keys, the mouse position, the wheel and the timer stay as *)
(* reset() leaves them.                                                    *)
(***************************************************************************)
ButtonFields == {"leftButton", "rightButton", "middleButton", "fireButton",
                 "fire2Button", "joyUp", "joyDown", "joyLeft", "joyRight",
                 "breakPressed"}

\* EventState::reset()
ResetState == [f \in ButtonFields |-> FALSE]

NoHandlers == [e \in {} |-> [event |-> "", type |-> "", target |-> "",
                             lineNumber |-> 0, enabled |-> FALSE]]

\* EventHandler(evt, hdlType, tgt, line)
EventHandler(evt, hdlType, tgt, line) ==
    [event |-> evt, type |-> hdlType, target |-> tgt, lineNumber |-> line,
     enabled |-> TRUE]

\* EventManager()
EventManagerConstructed ==
    /\ handlers_ = NoHandlers
    /\ currentState_ = ResetState
    /\ previousState_ = ResetState
    /\ eventsEnabled_ = TRUE
    /\ eventOp = [op |-> "new"]
    /\ supplied = <<>>

MaxHandlers == 2

getEventCategory(event) ==
    IF event \in {"KEYPRESSED", "KEY_UP", "KEY_DOWN", "LEFT_MOUSE", "RIGHT_MOUSE",
                  "MIDDLE_MOUSE", "MOUSE_MOVE", "MOUSE_WHEEL", "FIRE_BUTTON",
                  "FIRE2_BUTTON", "JOYSTICK_UP", "JOYSTICK_DOWN", "JOYSTICK_LEFT",
                  "JOYSTICK_RIGHT"}
    THEN "INPUT"
    ELSE IF event \in {"TIMER", "FRAME", "SECOND", "ERROR_EVENT", "BREAK"}
    THEN "SYSTEM"
    ELSE "CUSTOM"

\* no key is down and lastKeyPressed is empty in both states
checkKeyboardEvents(event) == FALSE

\* the mouse has not moved and the wheel has not turned
checkMouseEvents(event) ==
    CASE event = "LEFT_MOUSE" ->
            currentState_.leftButton /\ ~previousState_.leftButton
      [] event = "RIGHT_MOUSE" ->
            currentState_.rightButton /\ ~previousState_.rightButton
      [] event = "MIDDLE_MOUSE" ->
            currentState_.middleButton /\ ~previousState_.middleButton
      [] OTHER -> FALSE

checkJoystickEvents(event) ==
    CASE event = "FIRE_BUTTON" ->
            currentState_.fireButton /\ ~previousState_.fireButton
      [] event = "FIRE2_BUTTON" ->
            currentState_.fire2Button /\ ~previousState_.fire2Button
      [] event = "JOYSTICK_UP" ->
            currentState_.joyUp /\ ~previousState_.joyUp
      [] event = "JOYSTICK_DOWN" ->
            currentState_.joyDown /\ ~previousState_.joyDown
      [] event = "JOYSTICK_LEFT" ->
            currentState_.joyLeft /\ ~previousState_.joyLeft
      [] event = "JOYSTICK_RIGHT" ->
            currentState_.joyRight /\ ~previousState_.joyRight
      [] OTHER -> FALSE

\* the timer value has not changed
checkSystemEvents(event) ==
    CASE event = "BREAK" ->
            currentState_.breakPressed /\ ~previousState_.breakPressed
      [] OTHER -> FALSE

isEventTriggered(event) ==
    IF ~eventsEnabled_ THEN FALSE
    ELSE CASE getEventCategory(event) = "INPUT" ->
                 \/ checkKeyboardEvents(event)
                 \/ checkMouseEvents(event)
                 \/ checkJoystickEvents(event)
           [] getEventCategory(event) = "SYSTEM" -> checkSystemEvents(event)
           [] OTHER -> FALSE

\* what the other calls of the event manager leave alone
configured ==
    /\ eventOp' = [op |-> "configure"]
    /\ UNCHANGED <<currentState_, previousState_, supplied>>
    /\ UNCHANGED storeVars
    /\ UNCHANGED compileVars

registerHandler(handler) ==
    /\ handler.event \in DOMAIN handlers_ \/ Cardinality(DOMAIN handlers_) < MaxHandlers
    /\ handlers_' = Put(handlers_, handler.event, handler)
    /\ UNCHANGED eventsEnabled_
    /\ configured

removeHandler(event) ==
    /\ handlers_' = Erase(handlers_, event)
    /\ UNCHANGED eventsEnabled_
    /\ configured

enableHandler(event, enabled) ==
    /\ handlers_' = IF event \in DOMAIN handlers_
                    THEN [handlers_ EXCEPT ![event].enabled = enabled]
                    ELSE handlers_
    /\ UNCHANGED eventsEnabled_
    /\ configured

clearAllHandlers ==
    /\ handlers_' = NoHandlers
    /\ UNCHANGED eventsEnabled_
    /\ configured

setEventsEnabled(enabled) ==
    /\ eventsEnabled_' = enabled
    /\ UNCHANGED handlers_
    /\ configured

\* updateEventState that keeps no previous state
updateEventStateCurrentOnly(newState) ==
    /\ UNCHANGED previousState_
    /\ currentState_' = newState
    /\ eventOp' = [op |-> "updateEventState"]
    /\ supplied' = IF supplied = <<>> THEN <<newState>>
                   ELSE <<supplied[Len(supplied)], newState>>
    /\ UNCHANGED <<handlers_, eventsEnabled_>>
    /\ UNCHANGED storeVars
    /\ UNCHANGED compileVars

updateEventState(newState) ==
    /\ previousState_' = currentState_
    /\ currentState_' = newState
    /\ eventOp' = [op |-> "updateEventState"]
    /\ supplied' = IF supplied = <<>> THEN <<newState>>
                   ELSE <<supplied[Len(supplied)], newState>>
    /\ UNCHANGED <<handlers_, eventsEnabled_>>
    /\ UNCHANGED storeVars
    /\ UNCHANGED compileVars

\* the handlers returned, as a set: the vector holds them in the order of
\* the event types
checkTriggeredEvents ==
    /\ eventOp' = [op |-> "checkTriggeredEvents",
                   returned |-> IF ~eventsEnabled_ THEN {}
                                ELSE {handlers_[e] :
                                         e \in {x \in DOMAIN handlers_ :
                                                   /\ handlers_[x].enabled
                                                   /\ isEventTriggered(x)}}]
    /\ UNCHANGED <<handlers_, currentState_, previousState_, eventsEnabled_, supplied>>
    /\ UNCHANGED storeVars
    /\ UNCHANGED compileVars

CompileInit ==
    /\ program \in ProgramInputs
    /\ driver \in DriverInputs
    /\ parserErrors \in BOOLEAN
    /\ options \in CompilerOptionsInputs
    /\ pc = "start"
    /\ m_errors = <<>>
    /\ m_symbolTable = ConstructedSymbolTable
    /\ m_constantsManager = ConstructedManager
    /\ constOp = [op |-> "new"]
    /\ added = NoneAdded
    /\ m_forStack = <<>>
    /\ m_whileStack = <<>>
    /\ m_repeatStack = <<>>
    /\ m_doStack = <<>>
    /\ m_cfg = <<>>
    /\ irCode = <<>>
    /\ m_lines = EmptyLines
    /\ m_modified = FALSE
    /\ m_autoMode = FALSE
    /\ m_autoStart = 10
    /\ m_autoStep = 10
    /\ m_autoCurrentLine = 10
    /\ renumbers = 0
    /\ lastOp = [op |-> "new"]
    /\ autoLog = <<>>
    /\ unmodifiedLines = EmptyLines
    /\ EventManagerConstructed

\* ProgramManager(): the store as constructed; no program is being compiled
StoreInit ==
    /\ m_lines = EmptyLines
    /\ m_modified = FALSE
    /\ m_autoMode = FALSE
    /\ m_autoStart = 10
    /\ m_autoStep = 10
    /\ m_autoCurrentLine = 10
    /\ renumbers = 0
    /\ lastOp = [op |-> "new"]
    /\ autoLog = <<>>
    /\ unmodifiedLines = EmptyLines
    /\ EventManagerConstructed
    /\ program = <<>>
    /\ driver = "shell"
    /\ parserErrors = FALSE
    /\ options = [explicit |-> FALSE, unicodeMode |-> FALSE]
    /\ pc = "start"
    /\ m_errors = <<>>
    /\ m_symbolTable = ConstructedSymbolTable
    /\ m_constantsManager = ConstructedManager
    /\ constOp = [op |-> "new"]
    /\ added = NoneAdded
    /\ m_forStack = <<>>
    /\ m_whileStack = <<>>
    /\ m_repeatStack = <<>>
    /\ m_doStack = <<>>
    /\ m_cfg = <<>>
    /\ irCode = <<>>

\* Lexer::tokenize and Parser::parse; only the shell looks at the parser's
\* errors
parse ==
    /\ pc = "start"
    /\ pc' = IF driver = "shell" /\ parserErrors THEN "failed" ELSE "parsed"
    /\ UNCHANGED <<program, driver, parserErrors, m_errors, m_symbolTable,
                   m_forStack, m_whileStack, m_repeatStack, m_doStack, m_cfg, irCode>>
    /\ UNCHANGED <<options, m_constantsManager, constOp, added>>
    /\ UNCHANGED storeVars
    /\ UNCHANGED eventVars

\* semantic.analyze(*ast, compilerOptions); its result is dropped
analyzed(a) ==
    /\ m_errors' = a.errors
    /\ m_symbolTable' = a.symbols
    /\ m_forStack' = a.forStack
    /\ m_whileStack' = a.whileStack
    /\ m_repeatStack' = a.repeatStack
    /\ m_doStack' = a.doStack
    /\ m_constantsManager' = a.constantsManager

analyze ==
    /\ pc = "parsed"
    /\ analyzed(analyzeProgram(program, m_doStack, m_symbolTable.constants,
                               m_constantsManager, options))
    /\ pc' = "analyzed"
    /\ UNCHANGED <<program, driver, parserErrors, m_cfg, irCode>>
    /\ UNCHANGED <<options, constOp, added>>
    /\ UNCHANGED storeVars
    /\ UNCHANGED eventVars

\* cfgBuilder.build(*ast, semantic.getSymbolTable())
build ==
    /\ pc = "analyzed"
    /\ m_cfg' = buildCFG(program)
    /\ pc' = "cfg"
    /\ UNCHANGED <<program, driver, parserErrors, m_errors, m_symbolTable,
                   m_forStack, m_whileStack, m_repeatStack, m_doStack, irCode>>
    /\ UNCHANGED <<options, m_constantsManager, constOp, added>>
    /\ UNCHANGED storeVars
    /\ UNCHANGED eventVars

\* irGen.generate(*cfg, semantic.getSymbolTable())
generated(g) ==
    /\ pc' = IF g.overflow THEN "overflow"
             ELSE IF g.thrown THEN "failed" ELSE "ir"
    /\ irCode' = IF g.overflow \/ g.thrown THEN <<>> ELSE g.instructions

generateIR ==
    /\ pc = "cfg"
    /\ generated(generate(m_cfg, m_symbolTable))
    /\ UNCHANGED <<program, driver, parserErrors, m_errors, m_symbolTable,
                   m_forStack, m_whileStack, m_repeatStack, m_doStack, m_cfg>>
    /\ UNCHANGED <<options, m_constantsManager, constOp, added>>
    /\ UNCHANGED storeVars
    /\ UNCHANGED eventVars

\* the runtime constants a host injects before it compiles
InjectInputs == {[name |-> "A", value |-> ConstantValue("int64_t", "7")]}

\* what injectRuntimeConstant leaves: r is what addConstant returned
injected(name, value, r) ==
    /\ m_constantsManager' = r.cm
    /\ m_symbolTable' =
          [m_symbolTable EXCEPT !.constants =
              [n \in DOMAIN @ \cup {name} |->
                  IF n = name THEN ConstantSymbol(value, r.index) ELSE @[n]]]

\* SemanticAnalyzer::injectRuntimeConstant(name, value), before analyze
injectRuntimeConstant(name, value) ==
    /\ pc \in {"start", "parsed"}
    /\ injected(name, value, addConstant(m_constantsManager, name, value))
    /\ UNCHANGED <<program, driver, parserErrors, pc, m_errors,
                   m_forStack, m_whileStack, m_repeatStack, m_doStack, m_cfg, irCode>>
    /\ UNCHANGED <<options, constOp, added>>
    /\ UNCHANGED storeVars
    /\ UNCHANGED eventVars

CompileNext ==
    \/ parse
    \/ analyze
    \/ build
    \/ generateIR
    \/ \E c \in InjectInputs : injectRuntimeConstant(c.name, c.value)

\* the compiler at work, the program store left alone
SpecCompile == CompileInit /\ [][CompileNext]_vars

\* the program store at work, nothing being compiled
SpecStore == StoreInit /\ [][StoreNext]_vars

(***************************************************************************)
(* What the properties below read off a state                              *)
(***************************************************************************)
\* the jump targets written on a line, in order, each with the keyword that
\* introduces it: the token after GOTO, GOSUB or RESTORE, the number after
\* THEN or ELSE, and the tokens after the commas of an ON ... GOTO/GOSUB list
RECURSIVE TargetsFrom(_, _, _, _)
TargetsFrom(tokens, i, mode, acc) ==
    IF i > Len(tokens) THEN acc
    ELSE IF ToUpperStr(tokens[i]) = "ON"
    THEN TargetsFrom(tokens, i + 1, "ON", acc)
    ELSE IF ToUpperStr(tokens[i]) \in {"GOTO", "GOSUB", "RESTORE"}
            /\ i < Len(tokens) /\ tokens[i + 1] \notin {":", ","}
    THEN TargetsFrom(tokens, i + 2,
                     IF mode = "ON" /\ ToUpperStr(tokens[i]) # "RESTORE"
                     THEN ToUpperStr(tokens[i]) ELSE "",
                     Append(acc, [kw |-> ToUpperStr(tokens[i]), tok |-> tokens[i + 1]]))
    ELSE IF ToUpperStr(tokens[i]) \in {"THEN", "ELSE"}
            /\ i < Len(tokens) /\ IsNumberToken(tokens[i + 1])
    THEN TargetsFrom(tokens, i + 2, "",
                     Append(acc, [kw |-> ToUpperStr(tokens[i]), tok |-> tokens[i + 1]]))
    ELSE IF mode \in {"GOTO", "GOSUB"} /\ tokens[i] = "," /\ i < Len(tokens)
    THEN TargetsFrom(tokens, i + 2, mode,
                     Append(acc, [kw |-> mode, tok |-> tokens[i + 1]]))
    ELSE TargetsFrom(tokens, i + 1, IF mode = "ON" THEN "ON" ELSE "", acc)

Targets(code) == TargetsFrom(tokenizeLine(code), 1, "", <<>>)

IsNumericJump(t) == t.kw \in {"GOTO", "GOSUB", "THEN"} /\ IsNumberToken(t.tok)

\* the numeric targets of GOTO, GOSUB, THEN and ON lists among them
NumericJumps(code) == SelectSeq(Targets(code), IsNumericJump)

\* the position, in ascending order, of the line a numeric target resolves to
\* under line-or-next resolution; 0 when it resolves to no line
ResolvedPosition(lines, tok) ==
    IF stoi(tok) = StoiOverflow \/ LineOrNext(DOMAIN lines, stoi(tok)) = -1
    THEN 0
    ELSE Cardinality({l \in DOMAIN lines : l <= LineOrNext(DOMAIN lines, stoi(tok))})

\* the state follows a renumber of a non-empty store
Renumbered == lastOp.op = "renumber" /\ lastOp.before # EmptyLines

\* the k-th line, in ascending order, of a store
KthLine(lines, k) == lines[Ascending(DOMAIN lines)[k]]

\* the statements of the program being compiled
ProgramStatements == AllStatements(program)

ProgramLineNumbers == {program[i].lineNumber : i \in 1..Len(program)}

DefNames ==
    {ProgramStatements[k].stmt.name :
        k \in {j \in 1..Len(ProgramStatements) :
                  ProgramStatements[j].stmt.type = "STMT_DEF"}}

\* the GOTOs of the program whose numeric target is no line of the program
\* but lies below some line of it
GapGotos ==
    {k \in 1..Len(ProgramStatements) :
        /\ ProgramStatements[k].stmt.type = "STMT_GOTO"
        /\ ~ProgramStatements[k].stmt.isLabel
        /\ ProgramStatements[k].stmt.lineNumber \notin ProgramLineNumbers
        /\ \E l \in ProgramLineNumbers : l > ProgramStatements[k].stmt.lineNumber}

JumpOpcodes == {"JUMP", "JUMP_IF_TRUE", "JUMP_IF_FALSE"}

\* the label ids the IR program defines
DefinedLabels ==
    {irCode[i].ints[1] : i \in {j \in 1..Len(irCode) : irCode[j].opcode = "LABEL"}}

(***************************************************************************)
(* The program store                                                       *)
(***************************************************************************)
\* C1: after renumber(start, step) with start >= 1 and step >= 1 on a
\* non-empty store, every numeric jump target after GOTO, GOSUB, THEN, ELSE
\* or RESTORE or in an ON ... GOTO/GOSUB list that named an existing line
\* names that line's new number, and every non-numeric target is as written.
C1_TargetsRewritten ==
    (Renumbered /\ lastOp.startLine >= 1 /\ lastOp.step >= 1) =>
        \A k \in 1..Cardinality(DOMAIN lastOp.before) :
            k <= Cardinality(DOMAIN m_lines) =>
                \A j \in 1..Len(Targets(KthLine(lastOp.before, k))) :
                    /\ j <= Len(Targets(KthLine(m_lines, k)))
                    /\ IF IsNumberToken(Targets(KthLine(lastOp.before, k))[j].tok)
                       THEN hasLine(lastOp.before,
                                    stoi(Targets(KthLine(lastOp.before, k))[j].tok))
                            => Targets(KthLine(m_lines, k))[j].tok =
                                  to_string(lastOp.startLine + lastOp.step *
                                     (ResolvedPosition(lastOp.before,
                                         Targets(KthLine(lastOp.before, k))[j].tok) - 1))
                       ELSE Targets(KthLine(m_lines, k))[j].tok =
                               Targets(KthLine(lastOp.before, k))[j].tok

\* C2: renumber(10, 10) keeps where every jump goes: each numeric GOTO, GOSUB,
\* THEN or ON target resolves, by line-or-next resolution, to the same
\* statement (the line at the same position) before and after.
C2_ResolutionPreserved ==
    (Renumbered /\ lastOp.startLine = 10 /\ lastOp.step = 10) =>
        \A k \in 1..Cardinality(DOMAIN lastOp.before) :
            k <= Cardinality(DOMAIN m_lines) =>
                \A j \in 1..Len(NumericJumps(KthLine(lastOp.before, k))) :
                    /\ j <= Len(NumericJumps(KthLine(m_lines, k)))
                    /\ ResolvedPosition(m_lines, NumericJumps(KthLine(m_lines, k))[j].tok)
                       = ResolvedPosition(lastOp.before,
                                          NumericJumps(KthLine(lastOp.before, k))[j].tok)

\* C3: every line number held in the store lies in [1, 65535].
C3_LineNumbersInRange ==
    \A n \in DOMAIN m_lines : 1 <= n /\ n <= 65535

(***************************************************************************)
(* The compiler                                                            *)
(***************************************************************************)
\* C4: when analyze reports success, the FOR, WHILE, REPEAT and DO balance
\* stacks are all empty at the end of the analysis.
C4_BalanceStacksEmpty ==
    (pc = "analyzed" /\ m_errors = <<>>) =>
        /\ m_forStack = <<>>
        /\ m_whileStack = <<>>
        /\ m_repeatStack = <<>>
        /\ m_doStack = <<>>

\* C5: a GOTO whose numeric target is no existing line but lies below some
\* existing line gets no UNDEFINED_LINE error, and is lowered to a jump to
\* the label of the block of the smallest existing line above the target.
C5_GapGotoResolves ==
    \A k \in GapGotos :
        /\ pc = "analyzed" =>
              \A e \in 1..Len(m_errors) :
                  ~(m_errors[e].type = "UNDEFINED_LINE"
                    /\ m_errors[e].line = ProgramStatements[k].lineNumber)
        /\ pc = "ir" =>
              \A i \in 1..Len(irCode) :
                  (irCode[i].opcode = "JUMP"
                   /\ irCode[i].sourceLineNumber = ProgramStatements[k].lineNumber)
                  => \E j \in 1..Len(irCode) :
                        /\ irCode[j].opcode = "LABEL"
                        /\ irCode[j].ints = irCode[i].ints
                        /\ irCode[j].blockId =
                              getBlockForLineOrNext(m_cfg,
                                  ProgramStatements[k].stmt.lineNumber)

\* C6: in every IR program generate produces, the operand of each JUMP,
\* JUMP_IF_TRUE and JUMP_IF_FALSE is a label id the program defines with a
\* LABEL.
C6_JumpOperandsDefined ==
    pc = "ir" =>
        \A i \in 1..Len(irCode) :
            irCode[i].opcode \in JumpOpcodes => irCode[i].ints[1] \in DefinedLabels

\* C7: for an analysed program, each symbolic label's id is at least 10000
\* and differs from every line number of the program.
C7_LabelIdsApartFromLines ==
    pc = "analyzed" =>
        \A l \in DOMAIN m_symbolTable.labels :
            /\ m_symbolTable.labels[l] >= 10000
            /\ m_symbolTable.labels[l] \notin ProgramLineNumbers

\* C8: in the IR of an accepted program, a DEF FN line carries no computing
\* instruction, and no call of a DEF FN function of the program, before or
\* after its DEF FN line, is a CALL_FUNCTION or a CALL_BUILTIN.
C8_DefFnInlined ==
    (pc = "ir" /\ m_errors = <<>>) =>
        \A i \in 1..Len(irCode) :
            /\ irCode[i].opcode \in {"CALL_FUNCTION", "CALL_BUILTIN"}
                  => irCode[i].strs[1] \notin DefNames
            /\ irCode[i].opcode \notin {"LABEL", "JUMP", "HALT"}
                  => \A k \in 1..Len(ProgramStatements) :
                        ProgramStatements[k].stmt.type = "STMT_DEF"
                           => irCode[i].sourceLineNumber # ProgramStatements[k].lineNumber

\* C9: IR generation terminates for every program the analyzer accepts: the
\* inline expansion of an accepted program never re-enters a DEF FN function
\* it is already expanding, the one way generate can fail to return.
C9_GenerationTerminates ==
    m_errors = <<>> => pc # "overflow"

\* C10: the CFG builder and the IR generator run only when lexing, parsing
\* and semantic analysis of the program produced no error.
C10_LaterStagesNeedNoErrors ==
    [][(build \/ generateIR) => (~parserErrors /\ m_errors = <<>>)]_vars

(***************************************************************************)
(* The program store, continued                                            *)
(***************************************************************************)
\* a token as a statement carries it: keywords in any case, a number as a
\* number whatever its value
RECURSIVE StatementShape(_, _)
StatementShape(tokens, i) ==
    IF i > Len(tokens) THEN <<>>
    ELSE <<IF IsNumberToken(tokens[i]) THEN "#" ELSE ToUpperStr(tokens[i])>>
            \o StatementShape(tokens, i + 1)

\* two texts of one statement: the same tokens up to keyword case and the
\* value of numbers
SameStatement(old, new) ==
    StatementShape(tokenizeLine(old), 1) = StatementShape(tokenizeLine(new), 1)

\* the numbers start, start + step, ..., start + (k - 1) * step
NewNumbers(k, startLine, step) == {startLine + (i - 1) * step : i \in 1..k}

\* the numbering half of C11 alone
RenumberedByPosition ==
    (Renumbered /\ lastOp.startLine >= 1 /\ lastOp.step >= 1) =>
        DOMAIN m_lines =
            NewNumbers(Cardinality(DOMAIN lastOp.before), lastOp.startLine, lastOp.step)

\* C11: after renumber(start, step) with start >= 1 and step >= 1 on a store
\* of k lines, the store holds exactly the lines start, start + step, ...,
\* start + (k - 1) * step, and the i-th of them carries the statement of the
\* i-th old line.
C11_RenumberPositional ==
    (Renumbered /\ lastOp.startLine >= 1 /\ lastOp.step >= 1) =>
        /\ DOMAIN m_lines =
              NewNumbers(Cardinality(DOMAIN lastOp.before), lastOp.startLine, lastOp.step)
        /\ \A i \in 1..Cardinality(DOMAIN lastOp.before) :
              i <= Cardinality(DOMAIN m_lines) =>
                  SameStatement(KthLine(lastOp.before, i), KthLine(m_lines, i))

\* C12: renumbering with (10, 10) and renumbering the result with (10, 10)
\* again leaves a store whose generated text is byte-equal to the text
\* generated after the first renumber.
C12_RenumberIdempotent ==
    (Renumbered /\ lastOp.startLine = 10 /\ lastOp.step = 10
                /\ lastOp.prior = <<10, 10>>) =>
        generateProgram(m_lines) = generateProgram(lastOp.before)

(***************************************************************************)
(* The compiler, continued                                                 *)
(***************************************************************************)
\* the analysis of the program is over
Analyzed == pc \in {"analyzed", "cfg", "ir"}

\* the DIM statements that declare their array: no earlier DIM names it,
\* and the one dimension is a whole-number literal n >= 0
ConstantDims ==
    {k \in 1..Len(ProgramStatements) :
        /\ ProgramStatements[k].stmt.type = "STMT_DIM"
        /\ Len(ProgramStatements[k].stmt.dimensions) = 1
        /\ ProgramStatements[k].stmt.dimensions[1].type = "EXPR_NUMBER"
        /\ numberValue(ProgramStatements[k].stmt.dimensions[1]) >= 0
        /\ \A j \in 1..(k - 1) :
              ProgramStatements[j].stmt.type = "STMT_DIM"
                  => ProgramStatements[j].stmt.name # ProgramStatements[k].stmt.name}

ErrorsAt(line) == {m_errors[i].type : i \in {j \in 1..Len(m_errors) : m_errors[j].line = line}}

\* C13: for a DIM whose dimension bound is a constant n >= 0 the analyzer
\* records exactly n + 1 slots for the dimension and reports no error for
\* it: DIM A(0) records one slot, DIM F(10) eleven.
C13_DimRecordsBoundPlusOne ==
    Analyzed =>
        \A k \in ConstantDims :
            /\ ProgramStatements[k].stmt.name \in DOMAIN m_symbolTable.arrays
            /\ m_symbolTable.arrays[ProgramStatements[k].stmt.name].dimensions
                  = <<numberValue(ProgramStatements[k].stmt.dimensions[1]) + 1>>
            /\ "INVALID_ARRAY_INDEX" \notin ErrorsAt(ProgramStatements[k].lineNumber)

\* the same for the bounds n >= 1 alone
DimOfPositiveBound ==
    Analyzed =>
        \A k \in ConstantDims :
            numberValue(ProgramStatements[k].stmt.dimensions[1]) >= 1 =>
                /\ m_symbolTable.arrays[ProgramStatements[k].stmt.name].dimensions
                      = <<numberValue(ProgramStatements[k].stmt.dimensions[1]) + 1>>
                /\ "INVALID_ARRAY_INDEX"
                      \notin ErrorsAt(ProgramStatements[k].lineNumber)

ErrorTypes == {m_errors[i].type : i \in 1..Len(m_errors)}

\* the IDENT(args) sites of an expression: the names applied to arguments
RECURSIVE SitesOf(_)
SitesOf(expr) ==
    (IF expr.type = "EXPR_ARRAY_ACCESS" THEN {expr} ELSE {})
    \cup UNION {SitesOf(expr.args[i]) : i \in 1..Len(expr.args)}

\* the sites pass 2 validates, each with its line: in the expression of a
\* PRINT, IF, WHILE or UNTIL
ValidatedSites ==
    UNION {{[site |-> e, line |-> ProgramStatements[k].lineNumber] :
               e \in SitesOf(ProgramStatements[k].stmt.expr)} :
           k \in {j \in 1..Len(ProgramStatements) :
                      ProgramStatements[j].stmt.type
                          \in {"STMT_PRINT", "STMT_IF", "STMT_WHILE", "STMT_UNTIL"}}}

\* C14: without OPTION EXPLICIT a reference IDENT(args) to a name that is
\* no declared array, no user function and no built-in function is an
\* implicit array and gets no ARRAY_NOT_DECLARED error; the error is
\* reported under OPTION EXPLICIT only.
C14_ImplicitArrayWithoutExplicit ==
    (Analyzed /\ ~options.explicit) => "ARRAY_NOT_DECLARED" \notin ErrorTypes

\* what the analyzer does whatever the option: the error is reported for
\* every validated site whose name is none of the three
ImplicitArrayAlwaysReported ==
    Analyzed =>
        \A s \in ValidatedSites :
            (/\ s.site.name \notin DOMAIN m_symbolTable.arrays
             /\ s.site.name \notin DOMAIN m_symbolTable.functions
             /\ ~isBuiltinFunction(s.site.name))
                => "ARRAY_NOT_DECLARED" \in ErrorsAt(s.line)

\* the validated sites whose name is a declared array
DeclaredArraySites ==
    {s \in ValidatedSites : s.site.name \in DOMAIN m_symbolTable.arrays}

\* the checks of an array access were made at site s: the number of
\* indices against the declared dimensions, each index for a numeric type
CheckedAsArray(s) ==
    /\ Len(s.site.args) # Len(m_symbolTable.arrays[s.site.name].dimensions)
          => "WRONG_DIMENSION_COUNT" \in ErrorsAt(s.line)
    /\ (\E i \in 1..Len(s.site.args) :
            ~isNumericType(expressionType(s.site.args[i], m_symbolTable)))
          => "INVALID_ARRAY_INDEX" \in ErrorsAt(s.line)

\* the IR loads the array at site s
LoadedAsArray(s) ==
    \E i \in 1..Len(irCode) :
        /\ irCode[i].opcode = "LOAD_ARRAY"
        /\ irCode[i].strs = <<s.site.name>>
        /\ irCode[i].ints = <<Len(s.site.args)>>
        /\ irCode[i].sourceLineNumber = s.line

\* C15: every IDENT(args) site whose name is a declared array is an array
\* access for the analyzer (its checks are those of an array access) and
\* for the IR generator (LOAD_ARRAY), also when the name is a user function
\* as well.
C15_DeclaredArrayFirst ==
    \A s \in DeclaredArraySites :
        /\ Analyzed => CheckedAsArray(s)
        /\ pc = "ir" => LoadedAsArray(s)

\* the IR generator's half alone
IrLoadsDeclaredArrays ==
    pc = "ir" => \A s \in DeclaredArraySites : LoadedAsArray(s)

\* the analyzer's half for the names that are no user function
ArrayOnlyCheckedAsArray ==
    Analyzed =>
        \A s \in DeclaredArraySites :
            s.site.name \notin DOMAIN m_symbolTable.functions => CheckedAsArray(s)

\* the JUMP instructions of the IR program whose label is defined in it
Jumps ==
    {i \in 1..Len(irCode) :
        irCode[i].opcode = "JUMP" /\ irCode[i].ints[1] \in DefinedLabels}

\* the line a label stands for: the line of the LABEL statement, or the
\* first line of the block the label heads
LineOfLabel(labelId) ==
    LET i == CHOOSE j \in 1..Len(irCode) :
                 irCode[j].opcode = "LABEL" /\ irCode[j].ints[1] = labelId
    IN  IF irCode[i].sourceLineNumber > 0 THEN irCode[i].sourceLineNumber
        ELSE getFirstLineNumber(m_cfg[irCode[i].blockId + 1])

DestinationLine(i) == LineOfLabel(irCode[i].ints[1])

\* the jumps lowered from a GOTO with a line number
NumericGotoJumps ==
    {i \in Jumps :
        \E k \in 1..Len(ProgramStatements) :
            /\ ProgramStatements[k].lineNumber = irCode[i].sourceLineNumber
            /\ ProgramStatements[k].stmt.type = "STMT_GOTO"
            /\ ~ProgramStatements[k].stmt.isLabel}

\* C16: a JUMP of the emitted IR has isLoopJump set exactly when its
\* destination line is at most its source line, whether the GOTO names a
\* line number or a symbolic label.
C16_LoopJumpIffBackward ==
    pc = "ir" =>
        \A i \in Jumps :
            irCode[i].isLoopJump <=> DestinationLine(i) <= irCode[i].sourceLineNumber

\* the same for the GOTOs with a line number alone
NumericJumpsMarked ==
    pc = "ir" =>
        \A i \in NumericGotoJumps :
            irCode[i].isLoopJump <=> DestinationLine(i) <= irCode[i].sourceLineNumber

\* no jump to a symbolic label is ever marked
SymbolicJumpsUnmarked ==
    pc = "ir" => \A i \in Jumps \ NumericGotoJumps : ~irCode[i].isLoopJump

\* the literals and variables of an expression
RECURSIVE OperandsOf(_)
OperandsOf(expr) ==
    (IF expr.type \in {"EXPR_NUMBER", "EXPR_STRING", "EXPR_VARIABLE"}
     THEN {expr} ELSE {})
    \cup UNION {OperandsOf(expr.args[i]) : i \in 1..Len(expr.args)}

\* a string literal, a string-valued constant or a string variable
IsStringOperand(e) ==
    \/ e.type = "EXPR_STRING"
    \/ /\ e.type = "EXPR_VARIABLE"
       /\ IF e.name \in DOMAIN m_symbolTable.constants
          THEN m_symbolTable.constants[e.name].type = "STRING"
          ELSE inferTypeFromName(m_symbolTable, e.name) \in {"STRING", "UNICODE"}

\* the sites of an expression that are calls: the name is no declared array
CallsOf(expr) == {e \in SitesOf(expr) : e.name \notin DOMAIN m_symbolTable.arrays}

\* the WHILE statements lowered with a serialized condition: WHILE_START
\* carries the text
DeferredWhiles ==
    {k \in 1..Len(ProgramStatements) :
        /\ ProgramStatements[k].stmt.type = "STMT_WHILE"
        /\ \E i \in 1..Len(irCode) :
              /\ irCode[i].opcode = "WHILE_START"
              /\ irCode[i].sourceLineNumber = ProgramStatements[k].lineNumber
              /\ irCode[i].strs # <<>>}

\* C17: a WHILE is lowered with deferred evaluation (WHILE_START carrying
\* the serialized condition) only when its condition holds no function call
\* and no string-typed operand.
C17_DeferredOnlyWithoutStrings ==
    pc = "ir" =>
        \A k \in DeferredWhiles :
            /\ CallsOf(ProgramStatements[k].stmt.expr) = {}
            /\ \A e \in OperandsOf(ProgramStatements[k].stmt.expr) : ~IsStringOperand(e)

\* the half about calls alone
DeferredHasNoCall ==
    pc = "ir" => \A k \in DeferredWhiles : CallsOf(ProgramStatements[k].stmt.expr) = {}

\* a string-typed operand of +: a string literal, variable or constant, a
\* string-valued call or array, or a + that has one
RECURSIVE IsStringValued(_)
IsStringValued(e) ==
    IF e.type \in {"EXPR_NUMBER", "EXPR_STRING", "EXPR_VARIABLE"} THEN IsStringOperand(e)
    ELSE IF e.type = "EXPR_ARRAY_ACCESS"
    THEN expressionType(e, m_symbolTable) \in {"STRING", "UNICODE"}
    ELSE IF e.type = "EXPR_BINARY" /\ e.name = "PLUS"
    THEN IsStringValued(e.args[1]) \/ IsStringValued(e.args[2])
    ELSE FALSE

\* the PRINT statements of a sum of two operands that are no sums
PrintedSums ==
    {k \in 1..Len(ProgramStatements) :
        /\ ProgramStatements[k].stmt.type = "STMT_PRINT"
        /\ ProgramStatements[k].stmt.expr.type = "EXPR_BINARY"
        /\ ProgramStatements[k].stmt.expr.name = "PLUS"
        /\ \A i \in 1..2 : ProgramStatements[k].stmt.expr.args[i].type # "EXPR_BINARY"}

\* the opcodes emitted for + on the line of statement k
SumOpcodes(k) ==
    {irCode[i].opcode :
        i \in {j \in 1..Len(irCode) :
                  /\ irCode[j].sourceLineNumber = ProgramStatements[k].lineNumber
                  /\ irCode[j].opcode \in {"ADD", "STR_CONCAT", "UNICODE_CONCAT"}}}

\* C18: for a binary + the IR generator emits STR_CONCAT (UNICODE_CONCAT
\* under OPTION UNICODE) when at least one operand is string-typed, a
\* string-valued constant included, and ADD when both are numeric.
C18_PlusOpcodeByOperandType ==
    pc = "ir" =>
        \A k \in PrintedSums :
            SumOpcodes(k) =
                IF IsStringValued(ProgramStatements[k].stmt.expr)
                THEN IF options.unicodeMode THEN {"UNICODE_CONCAT"} ELSE {"STR_CONCAT"}
                ELSE {"ADD"}

\* the same for the sums that have no constant among their operands
PlusOpcodeWithoutConstants ==
    pc = "ir" =>
        \A k \in PrintedSums :
            (\A e \in OperandsOf(ProgramStatements[k].stmt.expr) :
                e.name \notin DOMAIN m_symbolTable.constants)
            => SumOpcodes(k) =
                   IF IsStringValued(ProgramStatements[k].stmt.expr)
                   THEN IF options.unicodeMode THEN {"UNICODE_CONCAT"}
                        ELSE {"STR_CONCAT"}
                   ELSE {"ADD"}

(***************************************************************************)
(* ConstantsManager.cpp: the constants manager at work, on its own         *)
(***************************************************************************)
\* the longest vector of constants
MaxConstants == 8

ConstantNameInputs == {"K", "N", "PI"}

ConstantValueInputs ==
    {ConstantValue("int64_t", "1"), ConstantValue("double", "2.5"),
     ConstantValue("string", "HI")}

\* the managers copied from
ManagerInputs ==
    {NewConstantsManager,
     addConstant(NewConstantsManager, "N", ConstantValue("int64_t", "7")).cm}

\* ConstantsManager(): nothing registered; nothing stored or compiled
ConstantsInit ==
    /\ m_constantsManager = NewConstantsManager
    /\ constOp = [op |-> "new"]
    /\ added = NoneAdded
    /\ options = [explicit |-> FALSE, unicodeMode |-> FALSE]
    /\ m_lines = EmptyLines
    /\ m_modified = FALSE
    /\ m_autoMode = FALSE
    /\ m_autoStart = 10
    /\ m_autoStep = 10
    /\ m_autoCurrentLine = 10
    /\ renumbers = 0
    /\ lastOp = [op |-> "new"]
    /\ autoLog = <<>>
    /\ unmodifiedLines = EmptyLines
    /\ EventManagerConstructed
    /\ program = <<>>
    /\ driver = "shell"
    /\ parserErrors = FALSE
    /\ pc = "start"
    /\ m_errors = <<>>
    /\ m_symbolTable = NewSymbolTable
    /\ m_forStack = <<>>
    /\ m_whileStack = <<>>
    /\ m_repeatStack = <<>>
    /\ m_doStack = <<>>
    /\ m_cfg = <<>>
    /\ irCode = <<>>

\* what the callers have seen once name was added with value and the add
\* returned index
Noted(name, value, index) ==
    [n \in DOMAIN added \cup {name} |->
        IF n = name
        THEN [first |-> IF name \in DOMAIN added THEN added[name].first ELSE index,
              value |-> value]
        ELSE added[n]]

\* index = manager.addConstant(name, value)
constantAdd(name, value) ==
    /\ hasConstant(m_constantsManager, name)
          \/ Len(m_constantsManager.m_constants) < MaxConstants
    /\ m_constantsManager' = addConstant(m_constantsManager, name, value).cm
    /\ constOp' = [op |-> "add", name |-> name, value |-> value,
                   index |-> addConstant(m_constantsManager, name, value).index,
                   again |-> name \in DOMAIN added,
                   previous |-> IF name \in DOMAIN added THEN added[name].value
                                ELSE value]
    /\ added' = Noted(name, value, addConstant(m_constantsManager, name, value).index)
    /\ UNCHANGED <<storeVars, settledVars, eventVars>>

\* manager.clear()
constantsClear ==
    /\ m_constantsManager' = clearConstants(m_constantsManager)
    /\ constOp' = [op |-> "clear"]
    /\ added' = NoneAdded
    /\ UNCHANGED <<storeVars, settledVars, eventVars>>

\* manager.copyFrom(other)
constantsCopyFrom(other) ==
    /\ m_constantsManager' = copyFrom(m_constantsManager, other)
    /\ constOp' = [op |-> "copyFrom"]
    /\ added' = NoneAdded
    /\ UNCHANGED <<storeVars, settledVars, eventVars>>

\* manager.addPredefinedConstants(): an add for each predefined constant
constantsAddPredefined ==
    /\ Cardinality({k \in 1..Len(PredefinedConstants) :
                       ~hasConstant(m_constantsManager, PredefinedConstants[k].name)})
          + Len(m_constantsManager.m_constants) <= MaxConstants
    /\ m_constantsManager' = addPredefinedConstants(m_constantsManager)
    /\ constOp' = [op |-> "addPredefinedConstants"]
    /\ added' =
          [n \in DOMAIN added
                    \cup {PredefinedConstants[k].name : k \in 1..Len(PredefinedConstants)} |->
              IF \E k \in 1..Len(PredefinedConstants) : PredefinedConstants[k].name = n
              THEN [first |-> IF n \in DOMAIN added THEN added[n].first
                              ELSE getConstantIndex(
                                       addPredefinedConstants(m_constantsManager), n),
                    value |-> PredefinedConstants[
                                  CHOOSE k \in 1..Len(PredefinedConstants) :
                                      PredefinedConstants[k].name = n].value]
              ELSE added[n]]
    /\ UNCHANGED <<storeVars, settledVars, eventVars>>

ConstantsNext ==
    \/ \E name \in ConstantNameInputs, value \in ConstantValueInputs :
          constantAdd(name, value)
    \/ constantsClear
    \/ \E other \in ManagerInputs : constantsCopyFrom(other)
    \/ constantsAddPredefined

SpecConstants == ConstantsInit /\ [][ConstantsNext]_vars

\* C19: over any sequence of adds with no clear and no copyFrom in
\* between, an add of a name that is present returns the index the first
\* add of the name returned, getConstant(index) is the value supplied last,
\* and getConstantIndex(name) is that index.
C19_AddIsUpsert ==
    /\ constOp.op = "add" => constOp.index = added[constOp.name].first
    /\ \A n \in DOMAIN added :
          /\ getConstantIndex(m_constantsManager, n) = added[n].first
          /\ getConstant(m_constantsManager, added[n].first) = added[n].value

\* a name added again with another value, another name having been added
\* in between
C19_AddedAgain ==
    /\ constOp.op = "add"
    /\ constOp.again
    /\ constOp.previous # constOp.value
    /\ constOp.index < Len(m_constantsManager.m_constants) - 1
    /\ Cardinality(DOMAIN added) >= 2

(***************************************************************************)
(* program_manager.cpp: automatic line numbering                           *)
(***************************************************************************)
AutoLineInputs == {100, 110}

AutoCodeInputs == {" goto 20 ", "  "}

AutoModeInputs == {<<100, 10>>}

AutoRenumberInputs == {<<10, 10>>, <<100, 10>>}

\* the store's operations with the shell asking for line numbers: a line
\* is stored under a number of the user's or under the number just
\* returned
AutoNext ==
    \/ \E lineNumber \in AutoLineInputs, code \in AutoCodeInputs :
          setLine(lineNumber, code)
    \/ \E code \in AutoCodeInputs :
          lastOp.op = "getNextAutoLine" /\ setLine(lastOp.line, code)
    \/ \E lineNumber \in AutoLineInputs : deleteLine(lineNumber)
    \/ clear
    \/ \E a \in AutoRenumberInputs : renumber(a[1], a[2])
    \/ \E enabled \in BOOLEAN, a \in AutoModeInputs : setAutoMode(enabled, a[1], a[2])
    \/ getNextAutoLine
    \/ incrementAutoLine

SpecAuto == StoreInit /\ [][AutoNext]_vars

\* C20: while auto mode is on, the number getNextAutoLine returns is no
\* line of the store at that time, whatever was set, deleted, renumbered
\* or asked for before; and once auto mode is switched on over an empty
\* store with start 100 and step 10, storing each number returned gives 100
\* and then 110 (the k-th number asked for is start + (k - 1) * step).
C20_NextAutoLineIsFree ==
    /\ (lastOp.op = "getNextAutoLine" /\ lastOp.autoMode)
          => ~hasLine(m_lines, lastOp.line)
    /\ \A i \in 1..Len(autoLog) :
          autoLog[i].op = "next"
              => autoLog[i].line = autoLog[1].line + ((i \div 2) - 1) * m_autoStep

\* start 100, step 10 over an empty store: 100 was returned and stored,
\* and 110 has just been returned
C20_SecondNumber ==
    /\ lastOp.op = "getNextAutoLine"
    /\ lastOp.autoMode
    /\ autoLog = <<[op |-> "auto", line |-> 100], [op |-> "next", line |-> 100],
                   [op |-> "set", line |-> 100], [op |-> "next", line |-> 110]>>
    /\ lastOp.line = 110
    /\ hasLine(m_lines, 100)

(***************************************************************************)
(* program_manager.cpp: the modified flag                                  *)
(***************************************************************************)
ModifiedLineInputs == {0, 10, 20}

ModifiedCodeInputs == {" goto 20 ", "rem", "  "}

ModifiedRenumberInputs == {<<10, 10>>, <<100, 10>>}

\* the store's operations with a caller that saves: setModified(false)
ModifiedNext ==
    \/ \E lineNumber \in ModifiedLineInputs, code \in ModifiedCodeInputs :
          setLine(lineNumber, code)
    \/ \E lineNumber \in ModifiedLineInputs : deleteLine(lineNumber)
    \/ clear
    \/ \E a \in ModifiedRenumberInputs : renumber(a[1], a[2])
    \/ \E modified \in BOOLEAN : setModified(modified)

SpecModified == StoreInit /\ [][ModifiedNext]_vars

\* C21, as stated: lines that differ from what they were when the flag
\* was last false come with the flag set; a set that stores text, a delete
\* that removes an existing line, and a renumber each leave the flag set.
C21_ModifiedAfterChange ==
    /\ m_lines # unmodifiedLines => m_modified
    /\ (lastOp.op = "setLine" /\ lastOp.stored) => m_modified
    /\ (lastOp.op \in {"setLine", "deleteLine"} /\ lastOp.removed) => m_modified
    /\ lastOp.op = "renumber" => m_modified

\* C21, amended: the renumber is one of a store that holds lines (a
\* renumber of an empty store returns at once and leaves the flag alone)
C21_ModifiedAfterChangeOfLines ==
    /\ m_lines # unmodifiedLines => m_modified
    /\ (lastOp.op = "setLine" /\ lastOp.stored) => m_modified
    /\ (lastOp.op \in {"setLine", "deleteLine"} /\ lastOp.removed) => m_modified
    /\ (lastOp.op = "renumber" /\ lastOp.before # EmptyLines) => m_modified

\* a line was stored, the program saved, and the line deleted again
C21_DeletedAfterSave ==
    /\ lastOp.op = "deleteLine"
    /\ lastOp.removed
    /\ unmodifiedLines # EmptyLines
    /\ m_lines = EmptyLines
    /\ m_modified

(***************************************************************************)
(* program_manager.cpp: renumber when the formatter fails                  *)
(***************************************************************************)
FallbackLineInputs == {10, 20, 30}

\* the first text makes the formatter throw (std::stoi, out of range)
FallbackCodeInputs == {"GOTO 99999999999", " goto 20 ", "  "}

FallbackRenumberInputs == {<<10, 10>>, <<100, 5>>}

FallbackNext ==
    \/ \E lineNumber \in FallbackLineInputs, code \in FallbackCodeInputs :
          setLine(lineNumber, code)
    \/ \E lineNumber \in FallbackLineInputs : deleteLine(lineNumber)
    \/ clear
    \/ \E a \in FallbackRenumberInputs : renumber(a[1], a[2])

SpecFallback == StoreInit /\ [][FallbackNext]_vars

\* the last operation was a renumber whose formatter reported failure
FormatterFailed ==
    /\ Renumbered
    /\ ~formatBasicCode(generateProgram(lastOp.before),
                        lastOp.startLine, lastOp.step).success

LoadedConstants ==
    {irCode[i].ints[1] : i \in {j \in 1..Len(irCode) : irCode[j].opcode = "LOAD_CONST"}}

\* C23: every LOAD_CONST i in the IR has 0 <= i < the size of the
\* analyzer's constants manager, whether the constant is predefined, was
\* injected by the host or was declared by a CONSTANT statement.
C23_LoadConstIndexInManager ==
    pc = "ir" =>
        \A i \in LoadedConstants : 0 <= i /\ i < Len(m_constantsManager.m_constants)

\* 10 CONSTANT K = "HI" / 20 PRINT K + PI + A with A injected: the IR holds
\* the index of each of the three
C23_ThreeKindsLoaded ==
    /\ pc = "ir"
    /\ "A" \in DOMAIN m_symbolTable.constants
    /\ "K" \in DOMAIN m_symbolTable.constants
    /\ LoadedConstants = {m_symbolTable.constants[n].index : n \in {"PI", "A", "K"}}
    /\ Cardinality(LoadedConstants) = 3

(***************************************************************************)
(* The compiler: programs of DEF FN definitions and calls, and what their  *)
(* IR computes.  A value is written as text: a variable that was never     *)
(* stored holds its own name, a sum is "(a+b)".                            *)
(***************************************************************************)
MaxInlineLines == 3

Var(name) == VariableExpression(name)

Sum(left, right) == BinaryExpression("PLUS", left, right)

Call(name, arguments) == ArrayAccessExpression(name, arguments)

\* DEF F(X, Y) = X + Y, DEF G(X) = F(1, X), DEF H(X) = F(X, 1) + X and
\* PRINTs of calls: plain, nested in either argument, through G and H, and
\* followed by a variable
InlineStatementInputs ==
    {DefStatement("F", <<"X", "Y">>, Sum(Var("X"), Var("Y"))),
     DefStatement("G", <<"X">>, Call("F", <<One, Var("X")>>)),
     DefStatement("H", <<"X">>, Sum(Call("F", <<Var("X"), One>>), Var("X"))),
     PrintStatement(Call("F", <<Var("A"), Var("B")>>)),
     PrintStatement(Call("F", <<Var("A"), Call("F", <<Var("B"), Var("C")>>)>>)),
     PrintStatement(Call("F", <<Call("F", <<Var("A"), Var("B")>>), Var("C")>>)),
     PrintStatement(Call("G", <<Var("A")>>)),
     PrintStatement(Call("H", <<Var("A")>>)),
     PrintStatement(Sum(Call("F", <<Var("A"), Var("B")>>), Var("X")))}

\* the programs of up to max lines 10, 20, ... of one statement of S each
ProgramsOf(S, max) ==
    UNION {{[k \in 1..n |-> ProgramLine(10 * k, <<f[k]>>)] : f \in [1..n -> S]} :
              n \in 1..max}

InlinePrograms == ProgramsOf(InlineStatementInputs, MaxInlineLines)

InlineInit ==
    /\ program \in InlinePrograms
    /\ driver \in DriverInputs
    /\ parserErrors = FALSE
    /\ options = [explicit |-> FALSE, unicodeMode |-> FALSE]
    /\ pc = "start"
    /\ m_errors = <<>>
    /\ m_symbolTable = ConstructedSymbolTable
    /\ m_constantsManager = ConstructedManager
    /\ constOp = [op |-> "new"]
    /\ added = NoneAdded
    /\ m_forStack = <<>>
    /\ m_whileStack = <<>>
    /\ m_repeatStack = <<>>
    /\ m_doStack = <<>>
    /\ m_cfg = <<>>
    /\ irCode = <<>>
    /\ m_lines = EmptyLines
    /\ m_modified = FALSE
    /\ m_autoMode = FALSE
    /\ m_autoStart = 10
    /\ m_autoStep = 10
    /\ m_autoCurrentLine = 10
    /\ renumbers = 0
    /\ lastOp = [op |-> "new"]
    /\ autoLog = <<>>
    /\ unmodifiedLines = EmptyLines
    /\ EventManagerConstructed

InlineNext ==
    \/ parse
    \/ analyze
    \/ build
    \/ generateIR

SpecInline == InlineInit /\ [][InlineNext]_vars

\* what a variable holds
Held(env, name) == IF name \in DOMAIN env THEN env[name] ELSE name

Stored(env, name, value) ==
    [n \in DOMAIN env \cup {name} |-> IF n = name THEN value ELSE env[n]]

\* the values the IR prints when its instructions are executed in order
\* (the programs here have no jumps): stack is the evaluation stack, env
\* the variables stored so far, out the values printed so far
RECURSIVE Executed(_, _, _, _, _)
Executed(code, i, stack, env, out) ==
    IF i > Len(code) THEN out
    ELSE IF code[i].opcode = "PUSH_INT"
    THEN Executed(code, i + 1,
                  Push(stack, IF code[i].strs = <<>> THEN "0" ELSE code[i].strs[1]),
                  env, out)
    ELSE IF code[i].opcode = "LOAD_VAR"
    THEN Executed(code, i + 1, Push(stack, Held(env, code[i].strs[1])), env, out)
    ELSE IF code[i].opcode = "STORE_VAR" /\ Len(stack) >= 1
    THEN Executed(code, i + 1, Pop(stack),
                  Stored(env, code[i].strs[1], Top(stack)), out)
    ELSE IF code[i].opcode = "ADD" /\ Len(stack) >= 2
    THEN Executed(code, i + 1,
                  Push(Pop(Pop(stack)),
                       "(" \o Top(Pop(stack)) \o "+" \o Top(stack) \o ")"),
                  env, out)
    ELSE IF code[i].opcode = "PRINT" /\ Len(stack) >= 1
    THEN Executed(code, i + 1, Pop(stack), env, Append(out, Top(stack)))
    ELSE Executed(code, i + 1, stack, env, out)

\* the value of an expression when every parameter stands for the value
\* of the argument supplied for it and every argument is evaluated where
\* the call stands: bindings are the parameters of the body being
\* evaluated, none at the top level
RECURSIVE Value(_, _, _)
Value(expr, bindings, functions) ==
    IF expr.type = "EXPR_NUMBER" THEN expr.name
    ELSE IF expr.type = "EXPR_VARIABLE" THEN Held(bindings, expr.name)
    ELSE IF expr.type = "EXPR_BINARY"
    THEN "(" \o Value(expr.args[1], bindings, functions) \o "+"
             \o Value(expr.args[2], bindings, functions) \o ")"
    ELSE IF expr.type = "EXPR_ARRAY_ACCESS" /\ expr.name \in DOMAIN functions
    THEN Value(functions[expr.name].body,
               [p \in {functions[expr.name].parameters[j] :
                          j \in 1..Len(functions[expr.name].parameters)} |->
                   Value(expr.args[CHOOSE j \in 1..Len(expr.args) :
                                      functions[expr.name].parameters[j] = p],
                         bindings, functions)],
               functions)
    ELSE "?"

\* the functions an expression calls
RECURSIVE Called(_)
Called(expr) ==
    (IF expr.type = "EXPR_ARRAY_ACCESS" THEN {expr.name} ELSE {})
    \cup UNION {Called(expr.args[j]) : j \in 1..Len(expr.args)}

\* every PRINT comes after the DEF FN lines of the functions it calls and
\* of those their bodies call, and no function is defined twice
DefinedBeforeUse ==
    /\ \A j, k \in 1..Len(ProgramStatements) :
          (/\ ProgramStatements[j].stmt.type = "STMT_DEF"
           /\ ProgramStatements[k].stmt.type = "STMT_DEF"
           /\ ProgramStatements[j].stmt.name = ProgramStatements[k].stmt.name) => j = k
    /\ \A k \in 1..Len(ProgramStatements) :
          ProgramStatements[k].stmt.type = "STMT_PRINT" =>
              \A f \in Called(ProgramStatements[k].stmt.expr) \cup
                        UNION {Called(ProgramStatements[d].stmt.expr) :
                                  d \in {e \in 1..Len(ProgramStatements) :
                                            /\ ProgramStatements[e].stmt.type = "STMT_DEF"
                                            /\ ProgramStatements[e].stmt.name \in
                                                  Called(ProgramStatements[k].stmt.expr)}} :
                  \E d \in 1..(k - 1) :
                      /\ ProgramStatements[d].stmt.type = "STMT_DEF"
                      /\ ProgramStatements[d].stmt.name = f

\* the values the PRINT statements of the program are to print, in order
RECURSIVE Expected(_, _, _)
Expected(stmts, k, functions) ==
    IF k > Len(stmts) THEN <<>>
    ELSE (IF stmts[k].stmt.type = "STMT_PRINT"
          THEN <<Value(stmts[k].stmt.expr, [n \in {} |-> ""], functions)>>
          ELSE <<>>) \o Expected(stmts, k + 1, functions)

\* C24: the IR of a DEF FN call computes the body with every parameter
\* standing for the value of the argument supplied at that call, the
\* arguments evaluated with the caller's bindings; also for F(A, F(B, C))
\* and for a call inside another DEF FN body.
C24_ParametersLoadArguments ==
    (pc = "ir" /\ m_errors = <<>> /\ DefinedBeforeUse) =>
        Executed(irCode, 1, <<>>, [n \in {} |-> ""], <<>>)
            = Expected(ProgramStatements, 1, m_symbolTable.functions)

(***************************************************************************)
(* The analyzer called again: one SemanticAnalyzer, several programs       *)
(***************************************************************************)
MaxReanalyzeLines == 2

\* analyze is not called again on an analyzer whose DO stack is this deep
MaxOpenDo == 2

ReanalyzeStatementInputs ==
    {ConstantStatement("K", StringExpression("HI")),
     PrintStatement(Sum(Var("K"), Var("K"))),
     PrintStatement(One),
     DoStatement, LoopStatement}

ReanalyzePrograms == ProgramsOf(ReanalyzeStatementInputs, MaxReanalyzeLines)

ReanalyzeInit ==
    /\ program \in ReanalyzePrograms
    /\ driver \in DriverInputs
    /\ parserErrors = FALSE
    /\ options = [explicit |-> FALSE, unicodeMode |-> FALSE]
    /\ pc = "start"
    /\ m_errors = <<>>
    /\ m_symbolTable = ConstructedSymbolTable
    /\ m_constantsManager = ConstructedManager
    /\ constOp = [op |-> "new"]
    /\ added = NoneAdded
    /\ m_forStack = <<>>
    /\ m_whileStack = <<>>
    /\ m_repeatStack = <<>>
    /\ m_doStack = <<>>
    /\ m_cfg = <<>>
    /\ irCode = <<>>
    /\ m_lines = EmptyLines
    /\ m_modified = FALSE
    /\ m_autoMode = FALSE
    /\ m_autoStart = 10
    /\ m_autoStep = 10
    /\ m_autoCurrentLine = 10
    /\ renumbers = 0
    /\ lastOp = [op |-> "new"]
    /\ autoLog = <<>>
    /\ unmodifiedLines = EmptyLines
    /\ EventManagerConstructed

\* semantic.analyze(next, options) on the analyzer that has analysed
\* program: the same program again, or another
analyzeAgain(next) ==
    /\ pc = "analyzed"
    /\ Len(m_doStack) < MaxOpenDo
    /\ program' = next
    /\ analyzed(analyzeProgram(next, m_doStack, m_symbolTable.constants,
                               m_constantsManager, options))
    /\ UNCHANGED <<driver, parserErrors, pc, m_cfg, irCode>>
    /\ UNCHANGED <<options, constOp, added>>
    /\ UNCHANGED storeVars
    /\ UNCHANGED eventVars

ReanalyzeNext ==
    \/ parse
    \/ analyze
    \/ \E next \in ReanalyzePrograms : analyzeAgain(next)
    \/ build
    \/ generateIR

SpecReanalyze == ReanalyzeInit /\ [][ReanalyzeNext]_vars

\* what a freshly constructed analyzer reports for the program
FreshErrors ==
    analyzeProgram(program, <<>>, ConstructedSymbolTable.constants,
                   ConstructedManager, options).errors

\* C25: the errors analyze reports depend on the program and the options
\* of that call alone: they are the errors a freshly constructed analyzer
\* reports, whatever the analyzer has analysed before.
C25_AnalyzeDependsOnProgramOnly ==
    Analyzed => m_errors = FreshErrors

(***************************************************************************)
(* The compiler: WHILE and WEND, nested                                    *)
(***************************************************************************)
MaxWhileLines == 4

\* WHILE A (deferred), WHILE F(1) (evaluated on the stack), WEND, PRINT 1
WhileStatementInputs ==
    {WhileStatement(Var("A")),
     WhileStatement(Call("F", <<One>>)),
     WendStatement,
     PrintStatement(One)}

WhilePrograms == ProgramsOf(WhileStatementInputs, MaxWhileLines)

WhileInit ==
    /\ program \in WhilePrograms
    /\ driver \in DriverInputs
    /\ parserErrors = FALSE
    /\ options = [explicit |-> FALSE, unicodeMode |-> FALSE]
    /\ pc = "start"
    /\ m_errors = <<>>
    /\ m_symbolTable = ConstructedSymbolTable
    /\ m_constantsManager = ConstructedManager
    /\ constOp = [op |-> "new"]
    /\ added = NoneAdded
    /\ m_forStack = <<>>
    /\ m_whileStack = <<>>
    /\ m_repeatStack = <<>>
    /\ m_doStack = <<>>
    /\ m_cfg = <<>>
    /\ irCode = <<>>
    /\ m_lines = EmptyLines
    /\ m_modified = FALSE
    /\ m_autoMode = FALSE
    /\ m_autoStart = 10
    /\ m_autoStep = 10
    /\ m_autoCurrentLine = 10
    /\ renumbers = 0
    /\ lastOp = [op |-> "new"]
    /\ autoLog = <<>>
    /\ unmodifiedLines = EmptyLines
    /\ EventManagerConstructed

WhileNext ==
    \/ parse
    \/ analyze
    \/ build
    \/ generateIR

SpecWhile == WhileInit /\ [][WhileNext]_vars

\* the WHILE a WEND closes: going back from statement j with depth WENDs
\* still to be matched; 0 when there is none
RECURSIVE ClosedFrom(_, _, _)
ClosedFrom(stmts, j, depth) ==
    IF j = 0 THEN 0
    ELSE IF stmts[j].stmt.type = "STMT_WEND" THEN ClosedFrom(stmts, j - 1, depth + 1)
    ELSE IF stmts[j].stmt.type = "STMT_WHILE"
    THEN IF depth = 0 THEN j ELSE ClosedFrom(stmts, j - 1, depth - 1)
    ELSE ClosedFrom(stmts, j - 1, depth)

ClosedWhile(k) == ClosedFrom(ProgramStatements, k - 1, 0)

Wends ==
    {k \in 1..Len(ProgramStatements) : ProgramStatements[k].stmt.type = "STMT_WEND"}

\* the instructions with an opcode emitted for statement k (one statement
\* to a line)
Emitted(k, opcode) ==
    {i \in 1..Len(irCode) :
        /\ irCode[i].opcode = opcode
        /\ irCode[i].sourceLineNumber = ProgramStatements[k].lineNumber}

\* C26: the WHILE_END of a WEND that closes a WHILE lowered on the stack
\* carries the label of that WHILE's LABEL and WHILE_START; the WHILE_END
\* of a WEND that closes a deferred WHILE carries none.  Nested loops and
\* loops of both kinds in one program included.
C26_WendCarriesWhileLabel ==
    pc = "ir" =>
        \A k \in Wends :
            /\ ClosedWhile(k) # 0
            /\ Cardinality(Emitted(k, "WHILE_END")) = 1
            /\ Cardinality(Emitted(ClosedWhile(k), "WHILE_START")) = 1
            /\ \A e \in Emitted(k, "WHILE_END") :
               \A s \in Emitted(ClosedWhile(k), "WHILE_START") :
                  IF ClosedWhile(k) \in DeferredWhiles
                  THEN irCode[e].ints = <<>> /\ irCode[s].ints = <<>>
                  ELSE /\ Len(irCode[s].ints) = 1
                       /\ irCode[e].ints = irCode[s].ints
                       /\ \E l \in Emitted(ClosedWhile(k), "LABEL") :
                             l < s /\ irCode[l].ints = irCode[s].ints

\* 10 WHILE F(1) / 20 WHILE A / 30 WEND / 40 WEND: the inner loop is
\* deferred, the outer one is not, and both WENDs have been lowered
C26_MixedNest ==
    /\ pc = "ir"
    /\ Len(ProgramStatements) = 4
    /\ Wends = {3, 4}
    /\ ClosedWhile(3) = 2 /\ ClosedWhile(3) \in DeferredWhiles
    /\ ClosedWhile(4) = 1 /\ ClosedWhile(4) \notin DeferredWhiles
    /\ \E e \in Emitted(4, "WHILE_END") : Len(irCode[e].ints) = 1

(***************************************************************************)
(* The compiler: the generator after an inline expansion                   *)
(***************************************************************************)
\* the DEF FN statements before statement k
DefsBefore(k) ==
    {d \in 1..(k - 1) : ProgramStatements[d].stmt.type = "STMT_DEF"}

\* the generator when statement k is lowered, as far as expressions go: the
\* functions of the DEF FN lines before it are registered
GeneratorAt(k) ==
    [NewGenerator(m_symbolTable) EXCEPT !.m_userFunctions =
        [n \in {ProgramStatements[d].stmt.name : d \in DefsBefore(k)} |->
            LET d == CHOOSE d \in DefsBefore(k) :
                        /\ ProgramStatements[d].stmt.name = n
                        /\ \A e \in DefsBefore(k) :
                              ProgramStatements[e].stmt.name = n => e <= d
            IN  [name |-> n, parameters |-> ProgramStatements[d].stmt.parameters,
                 body |-> ProgramStatements[d].stmt.expr]]]

\* the same generator in the middle of expanding a body whose parameter X
\* is held by a temporary
InsideBody(g) ==
    [g EXCEPT !.m_parameterMap = [p \in {"X"} |-> "__fn_H_X"],
              !.m_inFunctionInlining = TRUE]

\* the calls of DEF FN functions in the PRINT statements: <<k, site>>
PrintedCalls ==
    {c \in UNION {{<<k, e>> : e \in SitesOf(ProgramStatements[k].stmt.expr)} :
                     k \in {j \in 1..Len(ProgramStatements) :
                               ProgramStatements[j].stmt.type = "STMT_PRINT"}} :
        c[2].name \in DOMAIN GeneratorAt(c[1]).m_userFunctions}

\* the expansion of site e leaves the mapping and the flag of g as they were
LeavesAsFound(e, g) ==
    /\ generateInlinedFunction(e.name, e.args, g, {}).m_parameterMap = g.m_parameterMap
    /\ generateInlinedFunction(e.name, e.args, g, {}).m_inFunctionInlining
          = g.m_inFunctionInlining

\* the operand of the last LOAD_VAR before the final ADD of statement k
LoadedLast(k) ==
    {irCode[i - 1].strs :
        i \in {j \in 2..(Len(irCode) - 1) :
                  /\ irCode[j].sourceLineNumber = ProgramStatements[k].lineNumber
                  /\ irCode[j].opcode = "ADD"
                  /\ irCode[j + 1].opcode = "PRINT"
                  /\ irCode[j - 1].opcode = "LOAD_VAR"}}

\* C27: an inline expansion leaves m_parameterMap and m_inFunctionInlining
\* as it found them, at the top level and inside another body; so in
\* PRINT F(A, B) + X the X after the call is loaded as X, although X is a
\* parameter of F, and in DEF H(X) = F(X, 1) + X the X after the call is
\* loaded from H's temporary.
C27_MappingRestored ==
    (pc = "ir" /\ m_errors = <<>> /\ DefinedBeforeUse) =>
        /\ \A c \in PrintedCalls :
              /\ LeavesAsFound(c[2], GeneratorAt(c[1]))
              /\ LeavesAsFound(c[2], InsideBody(GeneratorAt(c[1])))
        /\ \A k \in 1..Len(ProgramStatements) :
              /\ (/\ ProgramStatements[k].stmt.type = "STMT_PRINT"
                  /\ ProgramStatements[k].stmt.expr =
                        Sum(Call("F", <<Var("A"), Var("B")>>), Var("X")))
                    => LoadedLast(k) = {<<"X">>}
              /\ (/\ ProgramStatements[k].stmt.type = "STMT_PRINT"
                  /\ ProgramStatements[k].stmt.expr = Call("H", <<Var("A")>>))
                    => LoadedLast(k) = {<<"__fn_H_X">>}

\* DEF F, DEF H, PRINT H(A): the call of F inside H's body has been
\* expanded and H's X loaded after it
C27_LoadedAfterInnerCall ==
    /\ pc = "ir" /\ m_errors = <<>> /\ DefinedBeforeUse
    /\ Len(ProgramStatements) = 3
    /\ ProgramStatements[3].stmt.type = "STMT_PRINT"
    /\ ProgramStatements[3].stmt.expr = Call("H", <<Var("A")>>)
    /\ LoadedLast(3) = {<<"__fn_H_X">>}
    /\ <<3, Call("H", <<Var("A")>>)>> \in PrintedCalls

(***************************************************************************)
(* shell_core.cpp: lines entered in auto mode                              *)
(***************************************************************************)
\* AUTO 100,10, AUTO (start 10, step 10) and the reset's setAutoMode(false)
ShellAutoInputs == {<<TRUE, 100, 10>>, <<TRUE, 10, 10>>, <<FALSE, 10, 10>>}

ShellLineInputs == {100, 110}

ShellCodeInputs == {"rem", "  "}

\* the shell's loop: the prompt, then a command; a line is entered under
\* the number the prompt offered or under a number of the user's
ShellNext ==
    \/ showPrompt
    \/ \E code \in ShellCodeInputs :
          lastOp.op = "getNextAutoLine" /\ handleDirectLine(lastOp.line, code)
    \/ \E lineNumber \in ShellLineInputs, code \in ShellCodeInputs :
          handleDirectLine(lineNumber, code)
    \/ \E lineNumber \in ShellLineInputs : deleteLine(lineNumber)
    \/ \E a \in ShellAutoInputs : setAutoMode(a[1], a[2], a[3])

SpecShell == StoreInit /\ [][ShellNext]_vars

\* C28: in auto mode, after the line offered by the prompt was entered
\* through handleDirectLine, the next number offered is that number plus
\* the step when that slot is free (here: auto mode was switched on over an
\* empty store and nothing else was entered): start, start + step, ...
C28_NoSlotSkipped ==
    \A i \in 3..Len(autoLog) :
        (autoLog[i].op = "next" /\ autoLog[i - 1].op = "direct")
            => autoLog[i].line = autoLog[i - 2].line + m_autoStep

\* what the shell does instead: every other slot is offered
EveryOtherSlotOffered ==
    \A i \in 3..Len(autoLog) :
        (autoLog[i].op = "next" /\ autoLog[i - 1].op = "direct")
            => autoLog[i].line = autoLog[i - 2].line + 2 * m_autoStep

(***************************************************************************)
(* fasterbasic_semantic.cpp: the DATA segment                              *)
(***************************************************************************)
MaxDataLines == 3

\* 10 DATA 1,2   10 DATA 3   10 DATA 1,2 : DATA 3   10 L:   10 L: DATA 3
\* 10 PRINT 1
DataLineInputs ==
    {<<DataStatement(<<"1", "2">>)>>,
     <<DataStatement(<<"3">>)>>,
     <<DataStatement(<<"1", "2">>), DataStatement(<<"3">>)>>,
     <<LabelStatement("L")>>,
     <<LabelStatement("L"), DataStatement(<<"3">>)>>,
     <<PrintStatement(One)>>}

DataPrograms ==
    UNION {{[k \in 1..n |-> ProgramLine(10 * k, f[k])] : f \in [1..n -> DataLineInputs]} :
              n \in 1..MaxDataLines}

DataInit ==
    /\ program \in DataPrograms
    /\ driver \in DriverInputs
    /\ parserErrors = FALSE
    /\ options = [explicit |-> FALSE, unicodeMode |-> FALSE]
    /\ pc = "start"
    /\ m_errors = <<>>
    /\ m_symbolTable = ConstructedSymbolTable
    /\ m_constantsManager = ConstructedManager
    /\ constOp = [op |-> "new"]
    /\ added = NoneAdded
    /\ m_forStack = <<>>
    /\ m_whileStack = <<>>
    /\ m_repeatStack = <<>>
    /\ m_doStack = <<>>
    /\ m_cfg = <<>>
    /\ irCode = <<>>
    /\ m_lines = EmptyLines
    /\ m_modified = FALSE
    /\ m_autoMode = FALSE
    /\ m_autoStart = 10
    /\ m_autoStep = 10
    /\ m_autoCurrentLine = 10
    /\ renumbers = 0
    /\ lastOp = [op |-> "new"]
    /\ autoLog = <<>>
    /\ unmodifiedLines = EmptyLines
    /\ EventManagerConstructed

DataNext ==
    \/ parse
    \/ analyze

SpecData == DataInit /\ [][DataNext]_vars

\* the number of values of the DATA statements of a line
RECURSIVE ValuesOfLine(_, _)
ValuesOfLine(statements, k) ==
    IF k > Len(statements) THEN 0
    ELSE (IF statements[k].type = "STMT_DATA" THEN Len(statements[k].values) ELSE 0)
         + ValuesOfLine(statements, k + 1)

\* the number of values of the lines before line i
RECURSIVE ValuesBefore(_, _)
ValuesBefore(prog, i) ==
    IF i <= 1 THEN 0
    ELSE ValuesBefore(prog, i - 1) + ValuesOfLine(prog[i - 1].statements, 1)

DataLines ==
    {i \in 1..Len(program) :
        \E k \in 1..Len(program[i].statements) :
            program[i].statements[k].type = "STMT_DATA"}

\* C29: after the analysis, the restore point of every numbered line that
\* holds DATA is the index, in the data segment, of the first value the line
\* contributed, also when the line holds several DATA statements
C29_RestorePointIsFirstValue ==
    pc = "analyzed" =>
        \A i \in DataLines :
            /\ program[i].lineNumber \in DOMAIN m_symbolTable.dataSegment.restorePoints
            /\ m_symbolTable.dataSegment.restorePoints[program[i].lineNumber]
                   = ValuesBefore(program, i)

\* the same of the lines that hold one DATA statement
RestorePointOfSingleData ==
    pc = "analyzed" =>
        \A i \in DataLines :
            Cardinality({k \in 1..Len(program[i].statements) :
                            program[i].statements[k].type = "STMT_DATA"}) = 1
                => /\ program[i].lineNumber
                          \in DOMAIN m_symbolTable.dataSegment.restorePoints
                   /\ m_symbolTable.dataSegment.restorePoints[program[i].lineNumber]
                          = ValuesBefore(program, i)

(***************************************************************************)
(* fasterbasic_events.cpp: the button events                               *)
(***************************************************************************)
\* the field of EventState each button event reads
ButtonOf ==
    [LEFT_MOUSE |-> "leftButton", RIGHT_MOUSE |-> "rightButton",
     MIDDLE_MOUSE |-> "middleButton", FIRE_BUTTON |-> "fireButton",
     FIRE2_BUTTON |-> "fire2Button", JOYSTICK_UP |-> "joyUp",
     JOYSTICK_DOWN |-> "joyDown", JOYSTICK_LEFT |-> "joyLeft",
     JOYSTICK_RIGHT |-> "joyRight", BREAK |-> "breakPressed"]

ButtonEvents == DOMAIN ButtonOf

\* the states a host supplies: nothing down, all down, one input down
EventStateInputs ==
    {ResetState, [f \in ButtonFields |-> TRUE]}
        \cup {[f \in ButtonFields |-> f = g] :
                 g \in {"leftButton", "joyUp", "joyDown", "breakPressed"}}

EventInit == StoreInit

EventNext ==
    \/ \E event \in ButtonEvents : registerHandler(EventHandler(event, "CALL", "H", 10))
    \/ \E event \in ButtonEvents : removeHandler(event)
    \/ \E event \in ButtonEvents, enabled \in BOOLEAN : enableHandler(event, enabled)
    \/ clearAllHandlers
    \/ \E enabled \in BOOLEAN : setEventsEnabled(enabled)
    \/ \E newState \in EventStateInputs : updateEventState(newState)
    \/ checkTriggeredEvents

SpecEvents == EventInit /\ [][EventNext]_vars

\* C30: with the events switched on, checkTriggeredEvents returns the
\* enabled handler of a button event exactly when the input is down in the
\* state the last updateEventState supplied and was up in the state the
\* updateEventState before it supplied; an input held down across the two
\* updates is not reported again
C30_ButtonEdgeTriggered ==
    (eventOp.op = "checkTriggeredEvents" /\ Len(supplied) = 2 /\ eventsEnabled_)
        => \A event \in ButtonEvents \cap DOMAIN handlers_ :
              handlers_[event].enabled
                  => (handlers_[event] \in eventOp.returned
                         <=> /\ supplied[2][ButtonOf[event]]
                             /\ ~supplied[1][ButtonOf[event]])

\* an input that was reported, held down in the next update and not
\* reported after it
C30_HeldNotReportedAgain ==
    /\ eventOp.op = "checkTriggeredEvents"
    /\ Len(supplied) = 2
    /\ eventsEnabled_
    /\ "FIRE_BUTTON" \in DOMAIN handlers_
    /\ handlers_["FIRE_BUTTON"].enabled
    /\ supplied[1].fireButton
    /\ supplied[2].fireButton
    /\ supplied[1].leftButton
    /\ "LEFT_MOUSE" \in DOMAIN handlers_
    /\ eventOp.returned = {}

\* an input that went down between the two updates and was reported
C30_PressReported ==
    /\ eventOp.op = "checkTriggeredEvents"
    /\ Len(supplied) = 2
    /\ "BREAK" \in DOMAIN handlers_
    /\ ~supplied[1].breakPressed
    /\ supplied[2].breakPressed
    /\ eventOp.returned = {handlers_["BREAK"]}

====
